---- MODULE Spec2Model ----
(***************************************************************************)
(* Model of the recovery subsystem of ai_job_agent:                        *)
(*   src/src/recovery/retry_logic.py  RetryHandler, CircuitBreaker         *)
(*                                                                         *)
(* Three specifications share the variables:                               *)
(*   Spec         one run of RetryHandler.execute_with_retry               *)
(*   SpecDelay    RetryHandler._calculate_delay applied to drawn inputs    *)
(*   SpecBreaker  a single-threaded client of CircuitBreaker.call          *)
(*                                                                         *)
(* Numbers.  Delays are Python floats; the model keeps them exact.         *)
(* base_delay, max_delay and exponential_factor are integers (seconds),    *)
(* jitter_factor is the numerator of a fraction over JitterDen, a draw of  *)
(* random.random() is the numerator of a fraction over RandDen, and a      *)
(* value returned by _calculate_delay is the numerator of a fraction over  *)
(* DelayScale = JitterDen * RandDen.                                       *)
(***************************************************************************)
EXTENDS Integers, Sequences, FiniteSets, TLC

VARIABLES
    \* ---- RetryHandler (retry_logic.py:56-193)
    config,              \* self.config, a RetryConfig
    fibonacci_sequence,  \* self._fibonacci_sequence
    pc,                  \* position of the run: idle, calling, sleeping, done
    attempt,             \* loop variable of execute_with_retry (0-indexed)
    last_exception,      \* local last_exception
    delay,               \* local delay: <<>> before the first assignment, else <<d>>
    outcome,             \* how the run ended: a return or a raised error
    trace,               \* the run's calls of func and of time.sleep, in order
    \* ---- _calculate_delay applied on its own
    delay_call,          \* <<>> or <<[attempt, rand, result]>>: the last application
    \* ---- CircuitBreaker (retry_logic.py:245-308)
    failure_threshold,
    recovery_timeout,
    failure_count,
    last_failure_time,
    state,
    now,                 \* time.time()
    bpc,                 \* idle, or in_func while the wrapped operation executes
    calls,               \* number of CircuitBreaker.call made so far
    failures_since_success,  \* operation failures since the operation last succeeded
    failures_total,      \* operation failures since construction
    invocations,         \* number of times the wrapped operation was invoked
    op_raised,           \* the last error the wrapped operation itself raised
    last_call,           \* how the last completed CircuitBreaker.call ended
    \* ---- StateManager (state_manager.py:14-320)
    application_state,   \* table application_state: key -> <<>> or <<row>>
    job_search_state,    \* table job_search_state: search_id -> <<>> or <<row>>
    recovery_checkpoints,  \* table recovery_checkpoints: checkpoint_id -> <<>> or <<row>>
    last_saved,          \* key -> <<>> or <<the value last given to save_state>>
    last_checkpoint,     \* checkpoint_id -> <<>> or <<the last create_checkpoint input>>
    store_op,            \* the last StateManager operation: arguments and result
    \* ---- ErrorHandler and error_handler_decorator (error_handler.py:53-122)
    error_counts,        \* self.error_counts: severity -> count
    handled,             \* how the last handle_error call ended
    wrapped,             \* how the last call of a decorated function ended
    \* ---- two threads in CircuitBreaker.call (retry_logic.py:282-308)
    tpc,                 \* thread -> its position in call
    treg,                \* thread -> the failure_count it loaded for "+= 1"
    tclock,              \* thread -> the time.time() it read and has yet to use
    overlapped,          \* a call started while another thread was inside call
    preempted            \* a thread ran while another was stopped outside any
                         \* call

retryVars == <<config, fibonacci_sequence, pc, attempt, last_exception, delay,
               outcome, trace>>
delayVars == <<delay_call>>
breakerVars == <<failure_threshold, recovery_timeout, failure_count,
                 last_failure_time, state, now, bpc, calls,
                 failures_since_success, failures_total, invocations,
                 op_raised, last_call>>
storeVars == <<application_state, job_search_state, recovery_checkpoints,
               last_saved, last_checkpoint, store_op>>
errorVars == <<error_counts, handled, wrapped>>
threadVars == <<tpc, treg, tclock, overlapped, preempted>>
vars == <<retryVars, delayVars, breakerVars, storeVars, errorVars, threadVars>>

(***************************************************************************)
(* Bounds of the model.                                                    *)
(***************************************************************************)
MaxAttempts == 3        \* max_attempts ranges over 1..MaxAttempts
JitterDen == 10         \* jitter_factor is a multiple of 1/JitterDen
RandDen == 2            \* random.random() is a multiple of 1/RandDen, below 1
MaxDelayAttempt == 6    \* _calculate_delay is applied to attempts 0..MaxDelayAttempt
MaxThreshold == 2       \* failure_threshold ranges over 1..MaxThreshold
MaxTimeout == 2         \* recovery_timeout ranges over 0..MaxTimeout
MaxTime == 4            \* the clock runs over 0..MaxTime
MaxCalls == 5           \* CircuitBreaker.call is made at most MaxCalls times
MaxErrors == 2          \* handle_error is called at most MaxErrors times per severity
MaxThreadCalls == 3     \* the two threads make at most MaxThreadCalls calls together
MaxBelowZero == 1       \* SpecAnyAttempts: max_attempts ranges over -MaxBelowZero..MaxAttempts

DelayScale == JitterDen * RandDen

Min(a, b) == IF a <= b THEN a ELSE b

RECURSIVE Pow(_, _)
\* base ** n for an integer n >= 0 (Python: x ** 0 == 1)
Pow(base, n) == IF n <= 0 THEN 1 ELSE base * Pow(base, n - 1)

(***************************************************************************)
(* Exceptions.  An exception instance is [cls, at]: its class and the      *)
(* invocation of the operation that raised it.  isinstance follows the     *)
(* class's bases.                                                          *)
(***************************************************************************)
Mro(cls) ==
    CASE cls = "Exception" -> {"Exception"}
      [] cls = "OSError" -> {"OSError", "Exception"}
      [] cls = "ValueError" -> {"ValueError", "Exception"}
      [] cls = "NonRetryableError" -> {"NonRetryableError", "Exception"}
      \* error_handler.py: APIError derives from JobAgentError
      [] cls = "APIError" -> {"APIError", "JobAgentError", "Exception"}
      \* requests.exceptions: RequestException derives from IOError (= OSError)
      [] cls = "HTTPError" -> {"HTTPError", "RequestException", "OSError", "Exception"}
      [] cls = "ConnectionError" -> {"ConnectionError", "RequestException", "OSError", "Exception"}
      [] cls = "Timeout" -> {"Timeout", "RequestException", "OSError", "Exception"}
      [] cls = "URLError" -> {"URLError", "OSError", "Exception"}
      [] cls = "TimeoutError" -> {"TimeoutError", "OSError", "Exception"}
      [] cls = "builtins.ConnectionError" -> {"builtins.ConnectionError", "OSError", "Exception"}
      [] OTHER -> {cls}

\* isinstance(e, classes) for a tuple of classes; isinstance(e, ()) is False
IsInstance(e, classes) == (Mro(e.cls) \cap classes) # {}

\* Python's None where an exception may stand
NoException == [cls |-> "NoneType", at |-> 0]

\* the classes the wrapped operation raises in the model
RaisedClasses == {"OSError", "HTTPError", "ValueError", "NonRetryableError"}

(***************************************************************************)
(* RetryConfig                                                             *)
(***************************************************************************)
Strategies == {"exponential_backoff", "linear_backoff", "fixed_delay", "fibonacci_backoff"}

\* retryable_exceptions / non_retryable_exceptions of RetryConfig's defaults
DefaultPolicy == [retryable |-> {"Exception"}, non_retryable |-> {}]
\* ... of retry_on_network_error
NetworkPolicy ==
    [retryable |-> {"ConnectionError", "Timeout", "HTTPError", "URLError", "OSError"},
     non_retryable |-> {"HTTPError"}]
\* ... of retry_on_api_error
ApiPolicy ==
    [retryable |-> {"TimeoutError", "builtins.ConnectionError", "OSError"},
     non_retryable |-> {}]
Policies == {DefaultPolicy, NetworkPolicy, ApiPolicy}

RetryConfig(m, b, md, f, j, jf, s, p) ==
    [max_attempts |-> m, base_delay |-> b, max_delay |-> md,
     exponential_factor |-> f, jitter |-> j, jitter_factor |-> jf, strategy |-> s,
     retryable_exceptions |-> p.retryable,
     non_retryable_exceptions |-> p.non_retryable]

RECURSIVE FibAppend(_, _)
\* the loop "for i in range(2, n): sequence.append(sequence[i-1] + sequence[i-2])"
FibAppend(sequence, n) ==
    IF Len(sequence) >= n THEN sequence
    ELSE FibAppend(Append(sequence,
                          sequence[Len(sequence)] + sequence[Len(sequence) - 1]), n)

\* mutant: the sequence starts 1, 2
GenerateFibonacciSequenceFromOneTwo(n) ==
    IF n <= 0 THEN <<>>
    ELSE IF n = 1 THEN <<1>>
    ELSE FibAppend(<<1, 2>>, n)

GenerateFibonacciSequence(n) ==
    IF n <= 0 THEN <<>>
    ELSE IF n = 1 THEN <<1>>
    ELSE FibAppend(<<1, 1>>, n)

\* RetryHandler.__init__: the table has max_attempts + 5 terms
InitFibonacci(cfg) == GenerateFibonacciSequence(cfg.max_attempts + 5)

(***************************************************************************)
(* _calculate_delay(attempt), with rand the draw of random.random() (used  *)
(* only when jitter is enabled).  The result is scaled by DelayScale.      *)
(***************************************************************************)
BaseDelayFor(cfg, fibs, a) ==
    IF cfg.strategy = "exponential_backoff"
    THEN cfg.base_delay * Pow(cfg.exponential_factor, a)
    ELSE IF cfg.strategy = "linear_backoff"
    THEN cfg.base_delay * (a + 1)
    ELSE IF cfg.strategy = "fixed_delay"
    THEN cfg.base_delay
    ELSE IF cfg.strategy = "fibonacci_backoff"
    THEN IF a < Len(fibs)
         THEN cfg.base_delay * fibs[a + 1]
         ELSE cfg.base_delay * Pow(cfg.exponential_factor, a)
    ELSE cfg.base_delay

\* mutant: the jitter is spread on both sides of the delay
CalculateDelaySymmetricJitter(cfg, fibs, a, rand) ==
    LET clamped == Min(BaseDelayFor(cfg, fibs, a), cfg.max_delay)
    IN  IF cfg.jitter
        THEN clamped * DelayScale + clamped * cfg.jitter_factor * (2 * rand - RandDen)
        ELSE clamped * DelayScale

CalculateDelay(cfg, fibs, a, rand) ==
    LET clamped == Min(BaseDelayFor(cfg, fibs, a), cfg.max_delay)
    IN  IF cfg.jitter
        THEN clamped * DelayScale + clamped * cfg.jitter_factor * rand
        ELSE clamped * DelayScale

(***************************************************************************)
(* _should_retry(exception, attempt)                                       *)
(***************************************************************************)
\* mutant: the retryable classes are consulted before the non-retryable ones
ShouldRetryRetryableFirst(cfg, e, a) ==
    IF a >= cfg.max_attempts THEN FALSE
    ELSE IF IsInstance(e, cfg.retryable_exceptions) THEN TRUE
    ELSE FALSE

\* mutant: the non-retryable check is skipped when retryable classes are given
ShouldRetryIgnoresNonRetryable(cfg, e, a) ==
    IF a >= cfg.max_attempts THEN FALSE
    ELSE IF cfg.retryable_exceptions = {}
            /\ IsInstance(e, cfg.non_retryable_exceptions) THEN FALSE
    ELSE IsInstance(e, cfg.retryable_exceptions)

\* mutant: every error that is not non-retryable is retried
ShouldRetryUnlessNonRetryable(cfg, e, a) ==
    IF a >= cfg.max_attempts THEN FALSE
    ELSE ~IsInstance(e, cfg.non_retryable_exceptions)

\* mutant: an error whose class is Exception itself is never retried
ShouldRetryOnlySubclasses(cfg, e, a) ==
    IF a >= cfg.max_attempts THEN FALSE
    ELSE IF cfg.non_retryable_exceptions # {}
            /\ IsInstance(e, cfg.non_retryable_exceptions) THEN FALSE
    ELSE e.cls # "Exception" /\ IsInstance(e, cfg.retryable_exceptions)

ShouldRetry(cfg, e, a) ==
    IF a >= cfg.max_attempts THEN FALSE
    ELSE IF cfg.non_retryable_exceptions # {}
            /\ IsInstance(e, cfg.non_retryable_exceptions) THEN FALSE
    ELSE IsInstance(e, cfg.retryable_exceptions)

\* mutant: the delay is also skipped before the last attempt
DelayBeforeNextTooFew(cfg, a) == a < cfg.max_attempts - 2

\* mutant: a delay also follows the last attempt
DelayBeforeNextAfterLast(cfg, a) == a < cfg.max_attempts

\* "if attempt < self.config.max_attempts - 1" (line 182)
DelayBeforeNext(cfg, a) == a < cfg.max_attempts - 1

(***************************************************************************)
(* Terminal outcomes of execute_with_retry.  RetryExhaustedError has the   *)
(* attributes attempts and last_exception; NonRetryableError is a plain    *)
(* Exception built from a message and raised "from e".                     *)
(***************************************************************************)
Returned(v) == [kind |-> "return", value |-> v]
RetryExhaustedError(n, e) ==
    [kind |-> "RetryExhaustedError", attempts |-> n, last_exception |-> e]
NonRetryableErrorFrom(e) ==
    [kind |-> "NonRetryableError", message_error |-> e, cause |-> e]
NoOutcome == [kind |-> "running"]

\* mutant: the 0-indexed attempt is reported as the number of attempts
TerminalErrorZeroIndexed(cfg, e, a) ==
    IF IsInstance(e, cfg.non_retryable_exceptions)
    THEN NonRetryableErrorFrom(e)
    ELSE RetryExhaustedError(a, e)

\* lines 174-179: the error raised when _should_retry says no
TerminalError(cfg, e, a) ==
    IF IsInstance(e, cfg.non_retryable_exceptions)
    THEN NonRetryableErrorFrom(e)
    ELSE RetryExhaustedError(a + 1, e)

\* the value returned by the n-th invocation of the operation
ResultOf(n) == [result |-> n]
\* trace events: an invocation of func (ok: it returned) and a call of time.sleep
CallEvent(ok, v) == [ev |-> "call", ok |-> ok, value |-> v]
SleepEvent == [ev |-> "sleep"]

NumCalls == Cardinality({i \in DOMAIN trace : trace[i].ev = "call"})
NumSleeps == Cardinality({i \in DOMAIN trace : trace[i].ev = "sleep"})

(***************************************************************************)
(* execute_with_retry, one action per stretch of code between two calls    *)
(* that leave the handler (func, time.sleep).                              *)
(***************************************************************************)
\* mutant: the loop runs one iteration more
LoopNextOneMore(a, last) ==
    IF a + 1 <= config.max_attempts
    THEN /\ attempt' = a + 1
         /\ pc' = "calling"
         /\ outcome' = outcome
    ELSE /\ attempt' = attempt
         /\ pc' = "done"
         /\ outcome' = RetryExhaustedError(config.max_attempts, last)

\* the for loop moves on from iteration a: the next iteration, or the
\* statement after the loop (line 193)
LoopNext(a, last) ==
    IF a + 1 < config.max_attempts
    THEN /\ attempt' = a + 1
         /\ pc' = "calling"
         /\ outcome' = outcome
    ELSE /\ attempt' = attempt
         /\ pc' = "done"
         /\ outcome' = RetryExhaustedError(config.max_attempts, last)

\* mutant: range(n) yields 0 also when n is 0
RangeNonEmptyFromZero(n) == n >= 0

\* "for attempt in range(self.config.max_attempts)" (line 160) has a first
\* iteration
RangeNonEmpty(n) == n >= 1

\* lines 158-160: the call starts; an empty range falls through to line 193
ExecuteWithRetry ==
    /\ pc = "idle"
    /\ last_exception' = NoException
    /\ IF RangeNonEmpty(config.max_attempts)
       THEN /\ attempt' = 0
            /\ pc' = "calling"
            /\ outcome' = outcome
       ELSE /\ attempt' = attempt
            /\ pc' = "done"
            /\ outcome' = RetryExhaustedError(config.max_attempts, NoException)
    /\ UNCHANGED <<config, fibonacci_sequence, delay, trace>>
    /\ UNCHANGED <<delayVars, breakerVars, storeVars, errorVars, threadVars>>

\* lines 163-168, the handler's side: the result of func is returned
HandlerGetsResult ==
    /\ pc = "calling"
    /\ LET v == ResultOf(NumCalls + 1)
       IN  /\ trace' = Append(trace, CallEvent(TRUE, v))
           /\ outcome' = Returned(v)
    /\ pc' = "done"
    /\ UNCHANGED <<config, fibonacci_sequence, attempt, last_exception, delay>>

\* lines 163-168: func returns, the result is returned
FuncReturns ==
    /\ HandlerGetsResult
    /\ UNCHANGED <<delayVars, breakerVars, storeVars, errorVars, threadVars>>

\* lines 170-190, the handler's side: an Exception of class cls raised by
\* func is caught
HandlerCatches(cls) ==
    /\ pc = "calling"
    /\ LET e == [cls |-> cls, at |-> NumCalls + 1]
       IN  /\ last_exception' = e
           /\ IF ~ShouldRetry(config, e, attempt)
              THEN /\ outcome' = TerminalError(config, e, attempt)
                   /\ pc' = "done"
                   /\ trace' = Append(trace, CallEvent(FALSE, e))
                   /\ UNCHANGED <<attempt, delay>>
              ELSE IF DelayBeforeNext(config, attempt)
              THEN /\ \E rand \in 0..(RandDen - 1) :
                          delay' = <<CalculateDelay(config, fibonacci_sequence,
                                                    attempt, rand)>>
                   /\ pc' = "sleeping"
                   /\ trace' = Append(Append(trace, CallEvent(FALSE, e)), SleepEvent)
                   /\ UNCHANGED <<attempt, outcome>>
              ELSE /\ LoopNext(attempt, e)
                   /\ trace' = Append(trace, CallEvent(FALSE, e))
                   /\ UNCHANGED delay
    /\ UNCHANGED <<config, fibonacci_sequence>>

\* lines 170-190: func raises an Exception of class cls
FuncRaises(cls) ==
    /\ HandlerCatches(cls)
    /\ UNCHANGED <<delayVars, breakerVars, storeVars, errorVars, threadVars>>

\* line 188: time.sleep returns, the loop moves on
SleepReturns ==
    /\ pc = "sleeping"
    /\ LoopNext(attempt, last_exception)
    /\ UNCHANGED <<config, fibonacci_sequence, last_exception, delay, trace>>
    /\ UNCHANGED <<delayVars, breakerVars, storeVars, errorVars, threadVars>>

(***************************************************************************)
(* _calculate_delay applied on its own to a drawn attempt                  *)
(***************************************************************************)
ApplyCalculateDelay ==
    /\ \E a \in 0..MaxDelayAttempt, rand \in 0..(RandDen - 1) :
          delay_call' = <<[attempt |-> a, rand |-> rand,
                           result |-> CalculateDelay(config, fibonacci_sequence,
                                                     a, rand)]>>
    /\ UNCHANGED <<retryVars, breakerVars, storeVars, errorVars, threadVars>>

(***************************************************************************)
(* CircuitBreaker                                                          *)
(***************************************************************************)
\* mutant: the cooldown is measured from time 0, not from the last failure
IsRecoveryTimeoutReachedSinceStart ==
    IF last_failure_time = <<>> THEN FALSE
    ELSE now >= recovery_timeout

\* mutant: the cooldown must be exceeded, not reached
IsRecoveryTimeoutReachedStrict ==
    IF last_failure_time = <<>> THEN FALSE
    ELSE now - last_failure_time[1] > recovery_timeout

\* _is_recovery_timeout_reached; last_failure_time is <<>> for None
IsRecoveryTimeoutReached ==
    IF last_failure_time = <<>> THEN FALSE
    ELSE now - last_failure_time[1] >= recovery_timeout

\* mutant: the fail-fast error carries another message
CircuitOpenExceptionLowerCase ==
    [cls |-> "Exception", message |-> "circuit breaker is open"]

\* raise Exception("Circuit breaker is OPEN")
CircuitOpenException == [cls |-> "Exception", message |-> "Circuit breaker is OPEN"]
\* an error raised by the wrapped operation
OperationError(cls) == [cls |-> cls, message |-> "operation failed"]
\* no error raised yet
NoOperationError == [cls |-> "NoneType", message |-> ""]
\* the classes of Exception the wrapped operation raises in the model
OperationClasses == {"OSError", "ValueError", "Exception"}

\* mutant: the operation's error is replaced by a new generic Exception
ReraiseWrapped(e) == [cls |-> "Exception", message |-> e.message]

\* "raise e" (line 308): the caller gets the operation's error
Reraise(e) == e

NoCall == [kind |-> "none", invoked |-> FALSE]
CallReturned == [kind |-> "returned", invoked |-> TRUE]
CallRaised(e, invoked) == [kind |-> "raised", invoked |-> invoked, error |-> e]

\* mutant: the circuit opens only once the threshold is exceeded
ThresholdExceeded(count) == count > failure_threshold

\* mutant: the circuit opens only at the threshold itself
ThresholdEquals(count) == count = failure_threshold

\* mutant: the circuit opens one failure before the threshold
ThresholdReachedEarly(count) == count + 1 >= failure_threshold

\* "if self.failure_count >= self.failure_threshold" (line 304)
ThresholdReached(count) == count >= failure_threshold

\* time passes
Tick ==
    /\ now < MaxTime
    /\ now' = now + 1
    /\ UNCHANGED <<failure_threshold, recovery_timeout, failure_count,
                   last_failure_time, state, bpc, calls, failures_since_success,
                   failures_total, invocations, op_raised, last_call>>
    /\ UNCHANGED <<retryVars, delayVars, storeVars, errorVars, threadVars>>

\* lines 282-287, the breaker's side: the call is refused
BreakerRejects ==
    /\ bpc = "idle"
    /\ calls < MaxCalls
    /\ state = "OPEN"
    /\ ~IsRecoveryTimeoutReached
    /\ calls' = calls + 1
    /\ last_call' = CallRaised(CircuitOpenException, FALSE)
    /\ UNCHANGED <<failure_threshold, recovery_timeout, failure_count,
                   last_failure_time, state, now, bpc, failures_since_success,
                   failures_total, invocations, op_raised>>

\* lines 282-287, the circuit is OPEN within its cooldown: fail fast
CallRejected ==
    /\ BreakerRejects
    /\ UNCHANGED <<retryVars, delayVars, storeVars, errorVars, threadVars>>

\* mutant: an elapsed cooldown closes the circuit at once
StateOnCallCloses(s) == IF s = "OPEN" THEN "CLOSED" ELSE s

\* lines 282-285: the state in which the operation is invoked
StateOnCall(s) == IF s = "OPEN" THEN "HALF_OPEN" ELSE s

\* lines 282-290: the gate lets the call through and func is invoked
CallInvokes ==
    /\ bpc = "idle"
    /\ calls < MaxCalls
    /\ state = "OPEN" => IsRecoveryTimeoutReached
    /\ state' = StateOnCall(state)
    /\ calls' = calls + 1
    /\ bpc' = "in_func"
    /\ invocations' = invocations + 1
    /\ UNCHANGED <<failure_threshold, recovery_timeout, failure_count,
                   last_failure_time, now, failures_since_success, failures_total,
                   op_raised, last_call>>
    /\ UNCHANGED <<retryVars, delayVars, storeVars, errorVars, threadVars>>

\* mutant: a successful trial call leaves the circuit HALF_OPEN
StateOnSuccessKeeps(s) == s

\* lines 294-296: a success in HALF_OPEN closes the circuit
StateOnSuccess(s) == IF s = "HALF_OPEN" THEN "CLOSED" ELSE s

\* lines 292-298, the breaker's side
BreakerSeesSuccess ==
    /\ bpc = "in_func"
    /\ state' = StateOnSuccess(state)
    /\ failure_count' = 0
    /\ failures_since_success' = 0
    /\ last_call' = CallReturned
    /\ bpc' = "idle"
    /\ UNCHANGED <<failure_threshold, recovery_timeout, last_failure_time, now,
                   calls, failures_total, invocations, op_raised>>

\* lines 292-298: func returned
OperationSucceeds ==
    /\ BreakerSeesSuccess
    /\ UNCHANGED <<retryVars, delayVars, storeVars, errorVars, threadVars>>

\* lines 300-308, the breaker's side
BreakerSeesFailure(cls) ==
    /\ bpc = "in_func"
    /\ failure_count' = failure_count + 1
    /\ last_failure_time' = <<now>>
    /\ state' = IF ThresholdReached(failure_count + 1) THEN "OPEN" ELSE state
    /\ failures_since_success' = failures_since_success + 1
    /\ failures_total' = failures_total + 1
    /\ op_raised' = OperationError(cls)
    /\ last_call' = CallRaised(Reraise(OperationError(cls)), TRUE)
    /\ bpc' = "idle"
    /\ UNCHANGED <<failure_threshold, recovery_timeout, now, calls, invocations>>

\* lines 300-308: func raised an Exception
OperationFails(cls) ==
    /\ BreakerSeesFailure(cls)
    /\ UNCHANGED <<retryVars, delayVars, storeVars, errorVars, threadVars>>

\* func raised a BaseException that is no Exception (KeyboardInterrupt,
\* SystemExit): "except Exception" does not catch it
OperationInterrupted ==
    /\ bpc = "in_func"
    /\ op_raised' = OperationError("KeyboardInterrupt")
    /\ last_call' = CallRaised(OperationError("KeyboardInterrupt"), TRUE)
    /\ bpc' = "idle"
    /\ UNCHANGED <<failure_threshold, recovery_timeout, failure_count,
                   last_failure_time, state, now, calls, failures_since_success,
                   failures_total, invocations>>
    /\ UNCHANGED <<retryVars, delayVars, storeVars, errorVars, threadVars>>

(***************************************************************************)
(* StateManager (state_manager.py).  A Python value is a record whose      *)
(* field t is type(value).__name__ and whose other field is the payload;   *)
(* a text is the sequence of its characters; a float is held in tenths.    *)
(***************************************************************************)
PyInt(n) == [t |-> "int", int |-> n]
PyFloat(tenths) == [t |-> "float", tenths |-> tenths]
PyBool(b) == [t |-> "bool", bool |-> b]
PyStr(chars) == [t |-> "str", chars |-> chars]
PyList(items) == [t |-> "list", items |-> items]
PyTuple(items) == [t |-> "tuple", items |-> items]
\* pairs is the sequence of the <<key, value>> entries, in insertion order
PyDict(pairs) == [t |-> "dict", pairs |-> pairs]
PyNone == [t |-> "NoneType"]

\* a == b together with type(a) is type(b), for a value and what was read
\* back for it; the entries of a dict are compared in their order, which
\* json.dumps and json.loads keep
RECURSIVE SameValue(_, _)
SameValue(a, b) ==
    /\ a.t = b.t
    /\ CASE a.t \in {"list", "tuple"} ->
                /\ Len(a.items) = Len(b.items)
                /\ \A i \in 1..Len(a.items) : SameValue(a.items[i], b.items[i])
         [] a.t = "dict" ->
                /\ Len(a.pairs) = Len(b.pairs)
                /\ \A i \in 1..Len(a.pairs) :
                      /\ SameValue(a.pairs[i][1], b.pairs[i][1])
                      /\ SameValue(a.pairs[i][2], b.pairs[i][2])
         [] a.t = "int" -> a.int = b.int
         [] a.t = "float" -> a.tenths = b.tenths
         [] a.t = "bool" -> a.bool = b.bool
         [] a.t = "str" -> a.chars = b.chars
         [] a.t = "NoneType" -> TRUE

DigitChars == <<"0", "1", "2", "3", "4", "5", "6", "7", "8", "9">>
UpperChars == <<"A", "B", "C", "D", "E", "F", "G", "H", "I", "J", "K", "L", "M",
                "N", "O", "P", "Q", "R", "S", "T", "U", "V", "W", "X", "Y", "Z">>
LowerChars == <<"a", "b", "c", "d", "e", "f", "g", "h", "i", "j", "k", "l", "m",
                "n", "o", "p", "q", "r", "s", "t", "u", "v", "w", "x", "y", "z">>

\* the decimal digits of n >= 0
RECURSIVE Digits(_)
Digits(n) ==
    IF n < 10 THEN <<DigitChars[n + 1]>>
    ELSE Append(Digits(n \div 10), DigitChars[(n % 10) + 1])

\* str(n) of an int
StrInt(n) == IF n < 0 THEN <<"-">> \o Digits(-n) ELSE Digits(n)

\* str(x) of the float x = tenths/10: the shortest repr, "1.5", "-0.5", "2.0"
StrFloat(tenths) ==
    LET m == IF tenths < 0 THEN -tenths ELSE tenths
        body == Digits(m \div 10) \o <<".">> \o Digits(m % 10)
    IN IF tenths < 0 THEN <<"-">> \o body ELSE body

\* str(b) of a bool
StrBool(b) == IF b THEN <<"T", "r", "u", "e">> ELSE <<"F", "a", "l", "s", "e">>

\* str(value) for the types save_state does not hand to json.dumps
Str(value) ==
    CASE value.t = "int" -> StrInt(value.int)
      [] value.t = "float" -> StrFloat(value.tenths)
      [] value.t = "bool" -> StrBool(value.bool)
      [] value.t = "str" -> value.chars
      [] value.t = "NoneType" -> <<"N", "o", "n", "e">>

\* the value of a run of decimal digits
RECURSIVE DigitsValue(_)
DigitsValue(chars) ==
    IF Len(chars) = 0 THEN 0
    ELSE 10 * DigitsValue(SubSeq(chars, 1, Len(chars) - 1))
         + (CHOOSE d \in 0..9 : DigitChars[d + 1] = chars[Len(chars)])

\* int(text) for the texts str(int) produces
ParseInt(chars) ==
    IF chars[1] = "-" THEN -DigitsValue(Tail(chars)) ELSE DigitsValue(chars)

\* float(text), in tenths, for the texts str(float) produces
ParseFloat(chars) ==
    LET body == IF chars[1] = "-" THEN Tail(chars) ELSE chars
        dot == CHOOSE i \in 1..Len(body) : body[i] = "."
        m == 10 * DigitsValue(SubSeq(body, 1, dot - 1))
             + DigitsValue(SubSeq(body, dot + 1, Len(body)))
    IN IF chars[1] = "-" THEN -m ELSE m

\* c.lower() of one character
LowerChar(c) ==
    IF \E u \in 1..26 : UpperChars[u] = c
    THEN LowerChars[CHOOSE u \in 1..26 : UpperChars[u] = c]
    ELSE c

\* text.lower()
RECURSIVE Lower(_)
Lower(chars) ==
    IF Len(chars) = 0 THEN <<>>
    ELSE <<LowerChar(Head(chars))>> \o Lower(Tail(chars))

(***************************************************************************)
(* json.dumps and json.loads.  A JSON text is represented by the document  *)
(* it denotes: a record whose field j is the kind (int, real, string,      *)
(* bool, null, array, object); the members of an object are                *)
(* <<name, document>> pairs whose names are texts.                         *)
(***************************************************************************)
JsonInt(n) == [j |-> "int", int |-> n]
JsonReal(tenths) == [j |-> "real", tenths |-> tenths]
JsonString(chars) == [j |-> "string", chars |-> chars]
JsonBool(b) == [j |-> "bool", bool |-> b]
JsonNull == [j |-> "null"]
JsonArray(elements) == [j |-> "array", elements |-> elements]
JsonObject(members) == [j |-> "object", members |-> members]

\* the member name json.dumps writes for a dict key
JsonKey(key) ==
    CASE key.t = "str" -> key.chars
      [] key.t = "int" -> StrInt(key.int)
      [] key.t = "float" -> StrFloat(key.tenths)
      [] key.t = "bool" -> Lower(StrBool(key.bool))
      [] key.t = "NoneType" -> <<"n", "u", "l", "l">>

\* json.dumps(value): lists and tuples both become arrays, dict keys become
\* member names
RECURSIVE JsonDumps(_), JsonDumpsItems(_), JsonDumpsMembers(_)
JsonDumps(value) ==
    CASE value.t \in {"list", "tuple"} -> JsonArray(JsonDumpsItems(value.items))
      [] value.t = "dict" -> JsonObject(JsonDumpsMembers(value.pairs))
      [] value.t = "int" -> JsonInt(value.int)
      [] value.t = "float" -> JsonReal(value.tenths)
      [] value.t = "str" -> JsonString(value.chars)
      [] value.t = "bool" -> JsonBool(value.bool)
      [] value.t = "NoneType" -> JsonNull

\* the elements of the array written for a list or tuple
JsonDumpsItems(items) ==
    IF Len(items) = 0 THEN <<>>
    ELSE <<JsonDumps(Head(items))>> \o JsonDumpsItems(Tail(items))

\* the members of the object written for a dict
JsonDumpsMembers(pairs) ==
    IF Len(pairs) = 0 THEN <<>>
    ELSE << <<JsonKey(Head(pairs)[1]), JsonDumps(Head(pairs)[2])>> >>
         \o JsonDumpsMembers(Tail(pairs))

\* json.loads(text): arrays become lists, objects become dicts with str keys
RECURSIVE JsonLoads(_), JsonLoadsItems(_), JsonLoadsMembers(_)
JsonLoads(doc) ==
    CASE doc.j = "array" -> PyList(JsonLoadsItems(doc.elements))
      [] doc.j = "object" -> PyDict(JsonLoadsMembers(doc.members))
      [] doc.j = "int" -> PyInt(doc.int)
      [] doc.j = "real" -> PyFloat(doc.tenths)
      [] doc.j = "string" -> PyStr(doc.chars)
      [] doc.j = "bool" -> PyBool(doc.bool)
      [] doc.j = "null" -> PyNone

\* the items of the list read from an array
JsonLoadsItems(docs) ==
    IF Len(docs) = 0 THEN <<>>
    ELSE <<JsonLoads(Head(docs))>> \o JsonLoadsItems(Tail(docs))

\* the entries of the dict read from an object: one entry per member name,
\* at the place of the name's first member and with the value of its last
JsonLoadsMembers(members) ==
    IF Len(members) = 0 THEN <<>>
    ELSE LET name == Head(members)[1]
             rest == Tail(members)
             again == {i \in 1..Len(rest) : rest[i][1] = name}
             doc == IF again = {} THEN Head(members)[2]
                    ELSE rest[CHOOSE i \in again : \A k \in again : k <= i][2]
         IN << <<PyStr(name), JsonLoads(doc)>> >>
            \o JsonLoadsMembers(SelectSeq(rest, LAMBDA m : m[1] # name))

\* the content of a TEXT column: characters, or the JSON text of a document
PlainText(chars) == [text |-> "plain", chars |-> chars]
JsonText(doc) == [text |-> "json", doc |-> doc]

(***************************************************************************)
(* The three tables.  A table maps each key of the model to <<>> (no row)  *)
(* or <<row>>; a NULL column is <<>>.  The column id is left out, and so    *)
(* are created_at and updated_at except in application_state, where they   *)
(* are readings of the clock now.                                          *)
(***************************************************************************)
StateKeys == {"k1", "k2"}
SearchIds == {"s1"}
CheckpointIds == {"c1", "c2"}

TextA == <<"a">>
TextTrue == <<"t", "r", "u", "e">>
\* the values handed to save_state
StateValues ==
    << PyInt(-12), PyFloat(15), PyBool(TRUE), PyStr(TextTrue),
       PyList(<<PyInt(1)>>), PyTuple(<<PyInt(1)>>),
       PyDict(<< <<PyStr(TextA), PyInt(1)>> >>),
       PyDict(<< <<PyInt(1), PyStr(TextA)>> >>) >>
\* the defaults handed to load_state
Defaults == <<PyNone, PyInt(0)>>
\* the results handed to save_job_search_state: None, [] and [{"a": 1}]
SearchResults ==
    << PyNone, PyList(<<>>), PyList(<< PyDict(<< <<PyStr(TextA), PyInt(1)>> >>) >>) >>
\* the (operation, state_data) pairs handed to create_checkpoint
CheckpointInputs ==
    << [operation |-> "search", state_data |-> PyDict(<< <<PyStr(TextA), PyInt(1)>> >>)],
       [operation |-> "apply", state_data |-> PyDict(<< <<PyStr(TextA), PyInt(2)>> >>)],
       [operation |-> "apply", state_data |-> PyDict(<< <<PyInt(1), PyStr(TextA)>> >>)] >>

EmptyTable(keys) == [k \in keys |-> <<>>]

\* the number of rows of a table
NumRows(table) == Cardinality({key \in DOMAIN table : table[key] # <<>>})

\* save_state lines 75-82: the row written for value
SerializedRow(value) ==
    IF value.t \in {"dict", "list", "tuple"}
    THEN [value |-> JsonText(JsonDumps(value)), data_type |-> "json"]
    ELSE [value |-> PlainText(Str(value)), data_type |-> value.t]

\* mutant: the row of an existing key keeps its created_at (an UPDATE)
StateRowKeepsCreation(table, key, serialized, timestamp) ==
    [value |-> serialized.value, data_type |-> serialized.data_type,
     created_at |-> IF table[key] = <<>> THEN timestamp
                    ELSE table[key][1].created_at,
     updated_at |-> timestamp]

\* save_state lines 86-90: the row INSERT OR REPLACE leaves for key at
\* CURRENT_TIMESTAMP = timestamp.  A row of the key in table is deleted and
\* a new row inserted: created_at, not listed, takes its default
\* CURRENT_TIMESTAMP, and updated_at is given as CURRENT_TIMESTAMP
StateRow(table, key, serialized, timestamp) ==
    [value |-> serialized.value, data_type |-> serialized.data_type,
     created_at |-> timestamp, updated_at |-> timestamp]

\* load_state lines 118-130 (and get_all_states 284-293): the value read
\* back from a row
Deserialize(row) ==
    CASE row.data_type = "json" -> JsonLoads(row.value.doc)
      [] row.data_type = "int" -> PyInt(ParseInt(row.value.chars))
      [] row.data_type = "float" -> PyFloat(ParseFloat(row.value.chars))
      [] row.data_type = "bool" -> PyBool(Lower(row.value.chars) = TextTrue)
      [] OTHER -> PyStr(row.value.chars)

\* mutant: a missing row yields None whatever the default
LoadStateResultNoneWhenMissing(table, key, default) ==
    IF table[key] = <<>> THEN PyNone ELSE Deserialize(table[key][1])

\* what load_state(key, default) returns from the table
LoadStateResult(table, key, default) ==
    IF table[key] = <<>> THEN default ELSE Deserialize(table[key][1])

\* cursor.rowcount of DELETE ... WHERE key = ?
RowCount(table, key) == IF table[key] = <<>> THEN 0 ELSE 1

\* mutant: delete_state reports success whenever the statement ran
DeletedAlways(rowcount) == rowcount >= 0

\* deleted = cursor.rowcount > 0
Deleted(rowcount) == rowcount > 0

\* Python truth value of the results argument
Truthy(value) ==
    CASE value.t = "NoneType" -> FALSE
      [] value.t \in {"list", "tuple"} -> Len(value.items) > 0
      [] value.t = "dict" -> Len(value.pairs) > 0
      [] value.t = "str" -> Len(value.chars) > 0
      [] value.t = "int" -> value.int # 0
      [] value.t = "float" -> value.tenths # 0
      [] value.t = "bool" -> value.bool

\* results_json = json.dumps(results) if results else None
ResultsJson(results) ==
    IF Truthy(results) THEN <<JsonText(JsonDumps(results))>> ELSE <<>>

\* the last_error column: a None argument is bound as NULL
ErrorColumn(last_error) ==
    IF last_error.t = "NoneType" THEN <<>> ELSE <<PlainText(last_error.chars)>>

\* what load_job_search_state(search_id) returns: <<>> for None, else the
\* row as a dict with results parsed when the column is not NULL
LoadJobSearchStateResult(table, search_id) ==
    IF table[search_id] = <<>> THEN <<>>
    ELSE LET row == table[search_id][1]
         IN << [query |-> row.query,
                results |-> IF row.results = <<>> THEN PyNone
                            ELSE JsonLoads(row.results[1].doc),
                status |-> row.status,
                error_count |-> row.error_count,
                last_error |-> IF row.last_error = <<>> THEN PyNone
                               ELSE PyStr(row.last_error[1].chars)] >>

\* mutant: the first row of a key is kept (INSERT OR IGNORE)
UpsertKeepFirst(table, key, row) ==
    IF table[key] = <<>> THEN [table EXCEPT ![key] = <<row>>] ELSE table

\* mutant: a conflicting row is removed and the new one is not written
UpsertDropsOnConflict(table, key, row) ==
    IF table[key] = <<>> THEN [table EXCEPT ![key] = <<row>>]
    ELSE [table EXCEPT ![key] = <<>>]

\* mutant: the row is written under every key of the table
UpsertEveryKey(table, key, row) == [k \in DOMAIN table |-> <<row>>]

\* INSERT OR REPLACE on the UNIQUE key column
Upsert(table, key, row) == [table EXCEPT ![key] = <<row>>]

\* what load_checkpoint(checkpoint_id) returns: <<>> for None
LoadCheckpointResult(table, checkpoint_id) ==
    IF table[checkpoint_id] = <<>> THEN <<>>
    ELSE LET row == table[checkpoint_id][1]
         IN << [operation |-> row.operation,
                state_data |-> JsonLoads(row.state_data.doc)] >>

\* mutant: get_all_states hands out the stored texts without restoring types
GetAllStatesResultRaw(table) ==
    [k \in {key \in DOMAIN table : table[key] # <<>>} |->
        IF table[k][1].data_type = "json" THEN PyStr(<<"j", "s", "o", "n">>)
        ELSE PyStr(table[k][1].value.chars)]

\* what get_all_states() returns: a mapping from the stored keys
GetAllStatesResult(table) ==
    [k \in {key \in DOMAIN table : table[key] # <<>>} |-> Deserialize(table[k][1])]

\* mutant: the DELETE statements remove nothing
ClearedNothing(table) == table

\* DELETE FROM <table>
Cleared(table) == EmptyTable(DOMAIN table)

\* the operation before this one was the same save_state(key, value) and
\* it completed
Repeated(key, value) ==
    /\ store_op.op = "save_state"
    /\ "raised" \notin DOMAIN store_op
    /\ store_op.key = key
    /\ SameValue(store_op.saved, value)

SaveState(key, value) ==
    /\ application_state' =
          Upsert(application_state, key,
                 StateRow(application_state, key, SerializedRow(value), now))
    /\ last_saved' = [last_saved EXCEPT ![key] = <<value>>]
    /\ store_op' = [op |-> "save_state", key |-> key, saved |-> value,
                    repeated |-> Repeated(key, value)]
    /\ UNCHANGED <<job_search_state, recovery_checkpoints, last_checkpoint>>
    /\ UNCHANGED <<retryVars, delayVars, breakerVars, errorVars, threadVars>>

LoadState(key, default) ==
    /\ store_op' = [op |-> "load_state", key |-> key, default |-> default,
                    returned |-> LoadStateResult(application_state, key, default)]
    /\ UNCHANGED <<application_state, job_search_state, recovery_checkpoints,
                   last_saved, last_checkpoint>>
    /\ UNCHANGED <<retryVars, delayVars, breakerVars, errorVars, threadVars>>

DeleteState(key) ==
    /\ application_state' = [application_state EXCEPT ![key] = <<>>]
    /\ last_saved' = [last_saved EXCEPT ![key] = <<>>]
    /\ store_op' = [op |-> "delete_state", key |-> key,
                    existed |-> application_state[key] # <<>>,
                    deleted |-> Deleted(RowCount(application_state, key))]
    /\ UNCHANGED <<job_search_state, recovery_checkpoints, last_checkpoint>>
    /\ UNCHANGED <<retryVars, delayVars, breakerVars, errorVars, threadVars>>

\* the row save_job_search_state writes
SearchRow(query, results, status, error_count, last_error) ==
    [query |-> query, results |-> ResultsJson(results), status |-> status,
     error_count |-> error_count, last_error |-> ErrorColumn(last_error)]

SaveJobSearchState(search_id, query, results, status, error_count, last_error) ==
    /\ job_search_state' =
          Upsert(job_search_state, search_id,
                 SearchRow(query, results, status, error_count, last_error))
    /\ store_op' = [op |-> "save_job_search_state", search_id |-> search_id,
                    query |-> query, results |-> results, status |-> status,
                    error_count |-> error_count, last_error |-> last_error]
    /\ UNCHANGED <<application_state, recovery_checkpoints, last_saved,
                   last_checkpoint>>
    /\ UNCHANGED <<retryVars, delayVars, breakerVars, errorVars, threadVars>>

LoadJobSearchState(search_id) ==
    /\ store_op' = [op |-> "load_job_search_state", search_id |-> search_id,
                    job_state |-> LoadJobSearchStateResult(job_search_state,
                                                           search_id)]
    /\ UNCHANGED <<application_state, job_search_state, recovery_checkpoints,
                   last_saved, last_checkpoint>>
    /\ UNCHANGED <<retryVars, delayVars, breakerVars, errorVars, threadVars>>

CreateCheckpoint(checkpoint_id, operation, state_data) ==
    /\ recovery_checkpoints' =
          Upsert(recovery_checkpoints, checkpoint_id,
                 [operation |-> operation,
                  state_data |-> JsonText(JsonDumps(state_data))])
    /\ last_checkpoint' =
          [last_checkpoint EXCEPT ![checkpoint_id] =
              <<[operation |-> operation, state_data |-> state_data]>>]
    /\ store_op' = [op |-> "create_checkpoint", checkpoint_id |-> checkpoint_id,
                    operation |-> operation, state_data |-> state_data]
    /\ UNCHANGED <<application_state, job_search_state, last_saved>>
    /\ UNCHANGED <<retryVars, delayVars, breakerVars, errorVars, threadVars>>

LoadCheckpoint(checkpoint_id) ==
    /\ store_op' = [op |-> "load_checkpoint", checkpoint_id |-> checkpoint_id,
                    checkpoint |-> LoadCheckpointResult(recovery_checkpoints,
                                                        checkpoint_id)]
    /\ UNCHANGED <<application_state, job_search_state, recovery_checkpoints,
                   last_saved, last_checkpoint>>
    /\ UNCHANGED <<retryVars, delayVars, breakerVars, errorVars, threadVars>>

GetAllStates ==
    /\ store_op' = [op |-> "get_all_states",
                    states |-> GetAllStatesResult(application_state)]
    /\ UNCHANGED <<application_state, job_search_state, recovery_checkpoints,
                   last_saved, last_checkpoint>>
    /\ UNCHANGED <<retryVars, delayVars, breakerVars, errorVars, threadVars>>

\* rows_before is the number of rows the three tables held before
ClearAllStates ==
    /\ application_state' = Cleared(application_state)
    /\ job_search_state' = Cleared(job_search_state)
    /\ recovery_checkpoints' = Cleared(recovery_checkpoints)
    /\ last_saved' = EmptyTable(StateKeys)
    /\ last_checkpoint' = EmptyTable(CheckpointIds)
    /\ store_op' = [op |-> "clear_all_states",
                    rows_before |-> NumRows(application_state)
                                    + NumRows(job_search_state)
                                    + NumRows(recovery_checkpoints),
                    cleared |-> TRUE]
    /\ UNCHANGED <<retryVars, delayVars, breakerVars, errorVars, threadVars>>

(***************************************************************************)
(* Restart and persistence failures.  Every operation opens its own        *)
(* connection in a with block; sqlite3 can fail when connecting, when      *)
(* executing the statement, or in conn.commit().                           *)
(***************************************************************************)
WriteStages == {"connect", "execute", "commit"}
ReadStages == {"connect", "execute"}
\* clear_all_states: connect, the three DELETE statements, conn.commit()
ClearStages == 0..4

\* the exception sqlite3 raises at a stage
DatabaseError(stage) == [cls |-> "OperationalError", stage |-> stage]

\* mutant: _init_database drops and recreates the table
CreateTableAfresh(table) == EmptyTable(DOMAIN table)

\* CREATE TABLE IF NOT EXISTS on a database that already has the table
CreateTableIfNotExists(table) == table

\* the table inside the transaction of a write whose statement would give
\* written: the statement has run only when the failure is in conn.commit()
Pending(before, written, stage) == IF stage = "commit" THEN written ELSE before

\* mutant: every statement is committed as it runs
VisibleAutocommit(before, pending, committed) == pending

\* the table the next connection sees: the with block rolls the transaction
\* back when it is left by an exception
Visible(before, pending, committed) == IF committed THEN pending ELSE before

\* mutant: a failed load_state hands out None
LoadStateFailureNone(default) == PyNone

\* load_state lines 132-134: except Exception ... return default
LoadStateFailure(default) == default

\* mutant: each DELETE of clear_all_states is committed on its own
CommittedStatementsEach(stage) == stage - 1

\* clear_all_states lines 306-310: the number of DELETE statements whose
\* effect is committed when the call fails at stage; the only conn.commit()
\* comes after the third
CommittedStatements(stage) == 0

\* the total number of rows of the three tables
TotalRows ==
    NumRows(application_state) + NumRows(job_search_state)
        + NumRows(recovery_checkpoints)

\* StateManager(db_path) constructed again on the same database file
Restart ==
    /\ application_state' = CreateTableIfNotExists(application_state)
    /\ job_search_state' = CreateTableIfNotExists(job_search_state)
    /\ recovery_checkpoints' = CreateTableIfNotExists(recovery_checkpoints)
    /\ store_op' = [op |-> "restart", rows_before |-> TotalRows]
    /\ UNCHANGED <<last_saved, last_checkpoint>>
    /\ UNCHANGED <<retryVars, delayVars, breakerVars, errorVars, threadVars>>

SaveStateFails(key, value, stage) ==
    /\ application_state' =
          Visible(application_state,
                  Pending(application_state,
                          Upsert(application_state, key,
                                 StateRow(application_state, key,
                                          SerializedRow(value), now)),
                          stage),
                  FALSE)
    /\ store_op' = [op |-> "save_state", key |-> key, saved |-> value,
                    raised |-> DatabaseError(stage)]
    /\ UNCHANGED <<job_search_state, recovery_checkpoints, last_saved,
                   last_checkpoint>>
    /\ UNCHANGED <<retryVars, delayVars, breakerVars, errorVars, threadVars>>

SaveJobSearchStateFails(search_id, query, results, status, error_count, last_error, stage) ==
    /\ job_search_state' =
          Visible(job_search_state,
                  Pending(job_search_state,
                          Upsert(job_search_state, search_id,
                                 SearchRow(query, results, status, error_count,
                                           last_error)),
                          stage),
                  FALSE)
    /\ store_op' = [op |-> "save_job_search_state", search_id |-> search_id,
                    query |-> query, results |-> results, status |-> status,
                    error_count |-> error_count, last_error |-> last_error,
                    raised |-> DatabaseError(stage)]
    /\ UNCHANGED <<application_state, recovery_checkpoints, last_saved,
                   last_checkpoint>>
    /\ UNCHANGED <<retryVars, delayVars, breakerVars, errorVars, threadVars>>

CreateCheckpointFails(checkpoint_id, operation, state_data, stage) ==
    /\ recovery_checkpoints' =
          Visible(recovery_checkpoints,
                  Pending(recovery_checkpoints,
                          Upsert(recovery_checkpoints, checkpoint_id,
                                 [operation |-> operation,
                                  state_data |-> JsonText(JsonDumps(state_data))]),
                          stage),
                  FALSE)
    /\ store_op' = [op |-> "create_checkpoint", checkpoint_id |-> checkpoint_id,
                    operation |-> operation, state_data |-> state_data,
                    raised |-> DatabaseError(stage)]
    /\ UNCHANGED <<application_state, job_search_state, last_saved,
                   last_checkpoint>>
    /\ UNCHANGED <<retryVars, delayVars, breakerVars, errorVars, threadVars>>

LoadStateFails(key, default, stage) ==
    /\ store_op' = [op |-> "load_state", key |-> key, default |-> default,
                    returned |-> LoadStateFailure(default),
                    failed |-> DatabaseError(stage)]
    /\ UNCHANGED <<application_state, job_search_state, recovery_checkpoints,
                   last_saved, last_checkpoint>>
    /\ UNCHANGED <<retryVars, delayVars, breakerVars, errorVars, threadVars>>

\* except Exception ... return None
LoadJobSearchStateFails(search_id, stage) ==
    /\ store_op' = [op |-> "load_job_search_state", search_id |-> search_id,
                    job_state |-> <<>>, failed |-> DatabaseError(stage)]
    /\ UNCHANGED <<application_state, job_search_state, recovery_checkpoints,
                   last_saved, last_checkpoint>>
    /\ UNCHANGED <<retryVars, delayVars, breakerVars, errorVars, threadVars>>

\* except Exception ... return None
LoadCheckpointFails(checkpoint_id, stage) ==
    /\ store_op' = [op |-> "load_checkpoint", checkpoint_id |-> checkpoint_id,
                    checkpoint |-> <<>>, failed |-> DatabaseError(stage)]
    /\ UNCHANGED <<application_state, job_search_state, recovery_checkpoints,
                   last_saved, last_checkpoint>>
    /\ UNCHANGED <<retryVars, delayVars, breakerVars, errorVars, threadVars>>

\* get_all_states lines 294-297: except Exception ... return states, the
\* empty dict of line 276, when connect or the SELECT fails
GetAllStatesFails(stage) ==
    /\ store_op' = [op |-> "get_all_states",
                    states |-> GetAllStatesResult(EmptyTable(StateKeys)),
                    failed |-> DatabaseError(stage)]
    /\ UNCHANGED <<application_state, job_search_state, recovery_checkpoints,
                   last_saved, last_checkpoint>>
    /\ UNCHANGED <<retryVars, delayVars, breakerVars, errorVars, threadVars>>

\* except Exception ... return False
DeleteStateFails(key, stage) ==
    /\ application_state' =
          Visible(application_state,
                  Pending(application_state,
                          [application_state EXCEPT ![key] = <<>>], stage),
                  FALSE)
    /\ store_op' = [op |-> "delete_state", key |-> key,
                    existed |-> application_state[key] # <<>>,
                    deleted |-> FALSE, failed |-> DatabaseError(stage)]
    /\ UNCHANGED <<job_search_state, recovery_checkpoints, last_saved,
                   last_checkpoint>>
    /\ UNCHANGED <<retryVars, delayVars, breakerVars, errorVars, threadVars>>

\* clear_all_states failing at stage: DELETE number n has run when n < stage
\* and is committed when n <= CommittedStatements(stage)
ClearAllStatesFails(stage) ==
    /\ application_state' =
          Visible(application_state,
                  IF 1 < stage THEN Cleared(application_state)
                  ELSE application_state,
                  1 <= CommittedStatements(stage))
    /\ job_search_state' =
          Visible(job_search_state,
                  IF 2 < stage THEN Cleared(job_search_state)
                  ELSE job_search_state,
                  2 <= CommittedStatements(stage))
    /\ recovery_checkpoints' =
          Visible(recovery_checkpoints,
                  IF 3 < stage THEN Cleared(recovery_checkpoints)
                  ELSE recovery_checkpoints,
                  3 <= CommittedStatements(stage))
    /\ store_op' = [op |-> "clear_all_states", rows_before |-> TotalRows,
                    cleared |-> FALSE, failed_at |-> stage]
    /\ UNCHANGED <<last_saved, last_checkpoint>>
    /\ UNCHANGED <<retryVars, delayVars, breakerVars, errorVars, threadVars>>

(***************************************************************************)
(* ErrorHandler and error_handler_decorator (error_handler.py).  The text  *)
(* of the log messages is left out; a log entry is its level.              *)
(***************************************************************************)
\* ErrorSeverity
Severities == {"low", "medium", "high", "critical"}

\* the errors handed to handle_error and raised by a decorated function;
\* KeyboardInterrupt is a BaseException that is no Exception
HandledClasses == {"ValueError", "APIError", "KeyboardInterrupt"}

\* lines 79-86: the logger method used for a severity
LogLevel(severity) ==
    CASE severity = "critical" -> "critical"
      [] severity = "high" -> "error"
      [] severity = "medium" -> "warning"
      [] OTHER -> "info"

\* line 71: self.error_counts[severity] += 1
Counted(counts, severity) == [counts EXCEPT ![severity] = @ + 1]

\* lines 69-96 after the count: the error is logged; with reraise "raise
\* error" runs inside the try block, whose "except Exception" catches every
\* Exception, logs it and returns False
HandleErrorOutcome(error, severity, reraise) ==
    IF ~reraise
    THEN [kind |-> "returned", value |-> TRUE, log |-> <<LogLevel(severity)>>]
    ELSE IF IsInstance(error, {"Exception"})
    THEN [kind |-> "returned", value |-> FALSE,
          log |-> <<LogLevel(severity), "error">>]
    ELSE [kind |-> "raised", log |-> <<LogLevel(severity)>>]

NoHandled == [kind |-> "none"]
NoWrapped == [kind |-> "none"]

\* ErrorHandler.__init__
ErrorHandlerInit ==
    /\ error_counts = [severity \in Severities |-> 0]
    /\ handled = NoHandled
    /\ wrapped = NoWrapped

\* handle_error(error, severity, reraise=reraise)
HandleError(cls, severity, reraise) ==
    /\ error_counts[severity] < MaxErrors
    /\ error_counts' = Counted(error_counts, severity)
    /\ LET out == HandleErrorOutcome(OperationError(cls), severity, reraise)
       IN handled' =
             IF out.kind = "returned"
             THEN [kind |-> "returned", value |-> out.value, log |-> out.log,
                   error |-> OperationError(cls), severity |-> severity,
                   reraise |-> reraise]
             ELSE [kind |-> "raised", log |-> out.log,
                   error |-> OperationError(cls), severity |-> severity,
                   reraise |-> reraise]
    /\ UNCHANGED wrapped
    /\ UNCHANGED <<retryVars, delayVars, breakerVars, storeVars, threadVars>>

\* reset_counts
ResetCounts ==
    /\ error_counts' = [severity \in Severities |-> 0]
    /\ UNCHANGED <<handled, wrapped>>
    /\ UNCHANGED <<retryVars, delayVars, breakerVars, storeVars, threadVars>>

\* a function decorated with error_handler_decorator(severity, reraise,
\* default_return) is called and returns
WrapperFuncReturns(severity, reraise) ==
    /\ wrapped' = [kind |-> "returned", value |-> "result",
                   func_raised |-> NoOperationError, reraise |-> reraise]
    /\ UNCHANGED <<error_counts, handled>>
    /\ UNCHANGED <<retryVars, delayVars, breakerVars, storeVars, threadVars>>

\* ... and raises: an Exception goes to handle_error of the wrapper's own
\* new ErrorHandler and default_return is returned unless handle_error
\* raises; any other BaseException passes "except Exception"
WrapperFuncRaises(cls, severity, reraise) ==
    /\ LET e == OperationError(cls)
           out == HandleErrorOutcome(e, severity, reraise)
       IN wrapped' =
             IF IsInstance(e, {"Exception"}) /\ out.kind = "returned"
             THEN [kind |-> "returned", value |-> "default_return",
                   func_raised |-> e, reraise |-> reraise]
             ELSE [kind |-> "raised", value |-> "", func_raised |-> e,
                   reraise |-> reraise]
    /\ UNCHANGED <<error_counts, handled>>
    /\ UNCHANGED <<retryVars, delayVars, breakerVars, storeVars, threadVars>>

(***************************************************************************)
(* CircuitBreaker.call made by two threads on one breaker, with no lock.   *)
(* Every read and every write of the breaker's attributes and every call   *)
(* of func, of time.time() and of the logger is a step of its own, and a   *)
(* thread can be switched out between any two steps.                       *)
(* "self.failure_count += 1" is a load followed by a store: CPython up to  *)
(* 3.9 switches threads between the two, CPython from 3.10 on switches     *)
(* only at calls and at backward jumps.  preempted stays FALSE in the      *)
(* behaviours in which a thread is switched out only inside a call.        *)
(***************************************************************************)
Threads == {1, 2}

AllIdle == \A t \in Threads : tpc[t] = "idle"

\* no thread is inside call
ThreadsInit ==
    /\ tpc = [t \in Threads |-> "idle"]
    /\ treg = [t \in Threads |-> 0]
    /\ tclock = [t \in Threads |-> 0]
    /\ overlapped = FALSE
    /\ preempted = FALSE

\* the positions of a thread that is outside call, inside func (line 290),
\* inside time.time() (lines 266 and 302), before or after the clock is
\* read, or inside self.logger.info or self.logger.error (lines 285, 295
\* and 306)
InsideCall == {"idle", "in_func", "gate_clock", "open_gate", "failure_clock",
               "set_time", "log_half_open", "log_closed", "log_open"}

\* thread t takes a step and moves to position label
Goto(t, label) ==
    /\ tpc' = [tpc EXCEPT ![t] = label]
    /\ preempted' = (preempted
                     \/ \E u \in Threads \ {t} : tpc[u] \notin InsideCall)

\* line 282: "if self.state == 'OPEN'" is read; a circuit that is not OPEN
\* lets the call through to func
ThreadChecksOpen(t) ==
    /\ tpc[t] = "idle"
    /\ calls < MaxThreadCalls
    /\ calls' = calls + 1
    /\ overlapped' = (overlapped \/ \E u \in Threads \ {t} : tpc[u] # "idle")
    /\ IF state = "OPEN"
       THEN Goto(t, "gate_none") /\ UNCHANGED invocations
       ELSE Goto(t, "in_func") /\ invocations' = invocations + 1
    /\ UNCHANGED <<failure_threshold, recovery_timeout, failure_count,
                   last_failure_time, state, now, bpc, failures_since_success,
                   failures_total, op_raised, last_call, treg, tclock>>
    /\ UNCHANGED <<retryVars, delayVars, storeVars, errorVars>>

\* line 264: "if self.last_failure_time is None" is read; None makes
\* _is_recovery_timeout_reached return False and the call raise
\* Exception("Circuit breaker is OPEN")
ThreadChecksFailureTime(t) ==
    /\ tpc[t] = "gate_none"
    /\ IF last_failure_time = <<>>
       THEN Goto(t, "idle")
       ELSE Goto(t, "gate_clock")
    /\ UNCHANGED <<breakerVars, treg, tclock, overlapped>>
    /\ UNCHANGED <<retryVars, delayVars, storeVars, errorVars>>

\* line 266, first operand: time.time() is called
ThreadReadsGateClock(t) ==
    /\ tpc[t] = "gate_clock"
    /\ tclock' = [tclock EXCEPT ![t] = now]
    /\ Goto(t, "open_gate")
    /\ UNCHANGED <<breakerVars, treg, overlapped>>
    /\ UNCHANGED <<retryVars, delayVars, storeVars, errorVars>>

\* lines 266 and 283-287: self.last_failure_time is read and subtracted
\* from the time read before; within the cooldown the call raises
\* Exception("Circuit breaker is OPEN")
ThreadChecksTimeout(t) ==
    /\ tpc[t] = "open_gate"
    /\ IF tclock[t] - last_failure_time[1] >= recovery_timeout
       THEN Goto(t, "set_half_open")
       ELSE Goto(t, "idle")
    /\ tclock' = [tclock EXCEPT ![t] = 0]
    /\ UNCHANGED <<breakerVars, treg, overlapped>>
    /\ UNCHANGED <<retryVars, delayVars, storeVars, errorVars>>

\* line 284: self.state = 'HALF_OPEN'; self.logger.info is called next
ThreadSetsHalfOpen(t) ==
    /\ tpc[t] = "set_half_open"
    /\ state' = "HALF_OPEN"
    /\ Goto(t, "log_half_open")
    /\ UNCHANGED <<failure_threshold, recovery_timeout, failure_count,
                   last_failure_time, now, bpc, calls, failures_since_success,
                   failures_total, invocations, op_raised, last_call, treg,
                   tclock, overlapped>>
    /\ UNCHANGED <<retryVars, delayVars, storeVars, errorVars>>

\* lines 285-290: self.logger.info returns and func is invoked
ThreadLogsHalfOpen(t) ==
    /\ tpc[t] = "log_half_open"
    /\ invocations' = invocations + 1
    /\ Goto(t, "in_func")
    /\ UNCHANGED <<failure_threshold, recovery_timeout, failure_count,
                   last_failure_time, state, now, bpc, calls,
                   failures_since_success, failures_total, op_raised,
                   last_call, treg, tclock, overlapped>>
    /\ UNCHANGED <<retryVars, delayVars, storeVars, errorVars>>

\* line 290: func returns
ThreadFuncReturns(t) ==
    /\ tpc[t] = "in_func"
    /\ Goto(t, "check_half_open")
    /\ UNCHANGED <<breakerVars, treg, tclock, overlapped>>
    /\ UNCHANGED <<retryVars, delayVars, storeVars, errorVars>>

\* line 300: func raises an Exception
ThreadFuncRaises(t) ==
    /\ tpc[t] = "in_func"
    /\ Goto(t, "load_count")
    /\ UNCHANGED <<breakerVars, treg, tclock, overlapped>>
    /\ UNCHANGED <<retryVars, delayVars, storeVars, errorVars>>

\* line 293: "if self.state == 'HALF_OPEN'" is read
ThreadChecksHalfOpen(t) ==
    /\ tpc[t] = "check_half_open"
    /\ IF state = "HALF_OPEN"
       THEN Goto(t, "set_closed")
       ELSE Goto(t, "reset_count")
    /\ UNCHANGED <<breakerVars, treg, tclock, overlapped>>
    /\ UNCHANGED <<retryVars, delayVars, storeVars, errorVars>>

\* line 294: self.state = 'CLOSED'; self.logger.info is called next
ThreadSetsClosed(t) ==
    /\ tpc[t] = "set_closed"
    /\ state' = "CLOSED"
    /\ Goto(t, "log_closed")
    /\ UNCHANGED <<failure_threshold, recovery_timeout, failure_count,
                   last_failure_time, now, bpc, calls, failures_since_success,
                   failures_total, invocations, op_raised, last_call, treg,
                   tclock, overlapped>>
    /\ UNCHANGED <<retryVars, delayVars, storeVars, errorVars>>

\* line 295: self.logger.info returns
ThreadLogsClosed(t) ==
    /\ tpc[t] = "log_closed"
    /\ Goto(t, "reset_count")
    /\ UNCHANGED <<breakerVars, treg, tclock, overlapped>>
    /\ UNCHANGED <<retryVars, delayVars, storeVars, errorVars>>

\* lines 297-298: self.failure_count = 0 and the call returns
ThreadResetsCount(t) ==
    /\ tpc[t] = "reset_count"
    /\ failure_count' = 0
    /\ failures_since_success' = 0
    /\ Goto(t, "idle")
    /\ UNCHANGED <<failure_threshold, recovery_timeout, last_failure_time, state,
                   now, bpc, calls, failures_total, invocations, op_raised,
                   last_call, treg, tclock, overlapped>>
    /\ UNCHANGED <<retryVars, delayVars, storeVars, errorVars>>

\* line 301, first half: self.failure_count is loaded
ThreadLoadsCount(t) ==
    /\ tpc[t] = "load_count"
    /\ treg' = [treg EXCEPT ![t] = failure_count]
    /\ Goto(t, "store_count")
    /\ UNCHANGED <<breakerVars, tclock, overlapped>>
    /\ UNCHANGED <<retryVars, delayVars, storeVars, errorVars>>

\* line 301, second half: the loaded value plus one is stored
ThreadStoresCount(t) ==
    /\ tpc[t] = "store_count"
    /\ failure_count' = treg[t] + 1
    /\ treg' = [treg EXCEPT ![t] = 0]
    /\ Goto(t, "failure_clock")
    /\ UNCHANGED <<failure_threshold, recovery_timeout, last_failure_time, state,
                   now, bpc, calls, failures_since_success, failures_total,
                   invocations, op_raised, last_call, tclock, overlapped>>
    /\ UNCHANGED <<retryVars, delayVars, storeVars, errorVars>>

\* line 302, right-hand side: time.time() is called
ThreadReadsFailureClock(t) ==
    /\ tpc[t] = "failure_clock"
    /\ tclock' = [tclock EXCEPT ![t] = now]
    /\ Goto(t, "set_time")
    /\ UNCHANGED <<breakerVars, treg, overlapped>>
    /\ UNCHANGED <<retryVars, delayVars, storeVars, errorVars>>

\* line 302, the store: self.last_failure_time = the time read before
ThreadSetsFailureTime(t) ==
    /\ tpc[t] = "set_time"
    /\ last_failure_time' = <<tclock[t]>>
    /\ tclock' = [tclock EXCEPT ![t] = 0]
    /\ Goto(t, "check_threshold")
    /\ UNCHANGED <<failure_threshold, recovery_timeout, failure_count, state, now,
                   bpc, calls, failures_since_success, failures_total,
                   invocations, op_raised, last_call, treg, overlapped>>
    /\ UNCHANGED <<retryVars, delayVars, storeVars, errorVars>>

\* line 304: self.failure_count is read again and compared with the
\* threshold; below it the call ends with "raise e"
ThreadChecksThreshold(t) ==
    /\ tpc[t] = "check_threshold"
    /\ IF ThresholdReached(failure_count)
       THEN /\ Goto(t, "set_open")
            /\ UNCHANGED <<failures_since_success, failures_total>>
       ELSE /\ Goto(t, "idle")
            /\ failures_since_success' = failures_since_success + 1
            /\ failures_total' = failures_total + 1
    /\ UNCHANGED <<failure_threshold, recovery_timeout, failure_count,
                   last_failure_time, state, now, bpc, calls, invocations,
                   op_raised, last_call, treg, tclock, overlapped>>
    /\ UNCHANGED <<retryVars, delayVars, storeVars, errorVars>>

\* line 305: self.state = 'OPEN'; self.logger.error is called next
ThreadSetsOpen(t) ==
    /\ tpc[t] = "set_open"
    /\ state' = "OPEN"
    /\ Goto(t, "log_open")
    /\ UNCHANGED <<failure_threshold, recovery_timeout, failure_count,
                   last_failure_time, now, bpc, calls, failures_since_success,
                   failures_total, invocations, op_raised, last_call, treg,
                   tclock, overlapped>>
    /\ UNCHANGED <<retryVars, delayVars, storeVars, errorVars>>

\* lines 306-308: self.logger.error returns and the call ends with "raise e"
ThreadLogsOpen(t) ==
    /\ tpc[t] = "log_open"
    /\ failures_since_success' = failures_since_success + 1
    /\ failures_total' = failures_total + 1
    /\ Goto(t, "idle")
    /\ UNCHANGED <<failure_threshold, recovery_timeout, failure_count,
                   last_failure_time, state, now, bpc, calls, invocations,
                   op_raised, last_call, treg, tclock, overlapped>>
    /\ UNCHANGED <<retryVars, delayVars, storeVars, errorVars>>

(***************************************************************************)
(* execute_with_retry(breaker.call, operation): the function the handler   *)
(* retries is CircuitBreaker.call wrapped around the operation, so one     *)
(* step of the breaker's call that ends the call is also the step in which *)
(* the handler gets the result or catches the error.                       *)
(***************************************************************************)
\* the breaker refuses the call and the handler catches its Exception
GuardedCallRejected ==
    /\ BreakerRejects
    /\ HandlerCatches(CircuitOpenException.cls)
    /\ UNCHANGED <<delayVars, storeVars, errorVars, threadVars>>

\* the breaker lets the call through and invokes the operation
GuardedCallInvokes ==
    /\ pc = "calling"
    /\ CallInvokes

\* the operation returns through the breaker to the handler
GuardedOperationSucceeds ==
    /\ BreakerSeesSuccess
    /\ HandlerGetsResult
    /\ UNCHANGED <<delayVars, storeVars, errorVars, threadVars>>

\* the operation raises, the breaker re-raises and the handler catches
GuardedOperationFails(cls) ==
    /\ BreakerSeesFailure(cls)
    /\ HandlerCatches(Reraise(OperationError(cls)).cls)
    /\ UNCHANGED <<delayVars, storeVars, errorVars, threadVars>>

(***************************************************************************)
(* Initial states and specifications                                       *)
(***************************************************************************)
\* the configurations of a run: max_attempts >= 1, as RetryPolicy requires
\* (with max_attempts <= 0 ExecuteWithRetry falls through to line 193)
RunConfigs ==
    {RetryConfig(m, 1, 2, 2, j, 1, s, p) :
        m \in 1..MaxAttempts, j \in BOOLEAN, s \in Strategies, p \in Policies}

\* the configurations _calculate_delay is applied under; delays are durations
\* handed to time.sleep, so base_delay and max_delay are not negative
DelayConfigs ==
    {RetryConfig(m, b, md, f, j, jf, s, DefaultPolicy) :
        m \in 1..MaxAttempts, b \in {0, 1, 2}, md \in {3}, f \in {2, 3},
        j \in BOOLEAN, jf \in {0, 1}, s \in Strategies}

\* RetryHandler.__init__, before execute_with_retry is called
HandlerInit(configs) ==
    /\ config \in configs
    /\ fibonacci_sequence = InitFibonacci(config)
    /\ pc = "idle"
    /\ attempt = 0
    /\ last_exception = NoException
    /\ delay = <<>>
    /\ outcome = NoOutcome
    /\ trace = <<>>
    /\ delay_call = <<>>

\* CircuitBreaker.__init__
BreakerInit(thresholds, timeouts) ==
    /\ failure_threshold \in thresholds
    /\ recovery_timeout \in timeouts
    /\ failure_count = 0
    /\ last_failure_time = <<>>
    /\ state = "CLOSED"
    /\ now = 0
    /\ bpc = "idle"
    /\ calls = 0
    /\ failures_since_success = 0
    /\ failures_total = 0
    /\ invocations = 0
    /\ op_raised = NoOperationError
    /\ last_call = NoCall

\* StateManager.__init__ on a new database file: _init_database creates the
\* three tables, all empty
StoreInit ==
    /\ application_state = EmptyTable(StateKeys)
    /\ job_search_state = EmptyTable(SearchIds)
    /\ recovery_checkpoints = EmptyTable(CheckpointIds)
    /\ last_saved = EmptyTable(StateKeys)
    /\ last_checkpoint = EmptyTable(CheckpointIds)
    /\ store_op = [op |-> "init"]

Init == HandlerInit(RunConfigs) /\ BreakerInit({5}, {60}) /\ StoreInit /\ ErrorHandlerInit /\ ThreadsInit

Next ==
    \/ ExecuteWithRetry
    \/ FuncReturns
    \/ \E cls \in RaisedClasses : FuncRaises(cls)
    \/ SleepReturns

Spec == Init /\ [][Next]_vars

\* func(*args, **kwargs) returns or raises
FuncEnds == FuncReturns \/ \E cls \in RaisedClasses : FuncRaises(cls)

\* a run in which every invocation of the operation and every time.sleep
\* comes to an end
SpecFair == Spec /\ WF_vars(FuncEnds) /\ WF_vars(SleepReturns)

\* the configurations RetryConfig accepts: max_attempts is not validated and
\* may be zero or negative
AnyConfigs ==
    {RetryConfig(m, 1, 2, 2, j, 1, s, p) :
        m \in (0 - MaxBelowZero)..MaxAttempts, j \in BOOLEAN, s \in Strategies,
        p \in Policies}

InitAnyAttempts == HandlerInit(AnyConfigs) /\ BreakerInit({5}, {60}) /\ StoreInit /\ ErrorHandlerInit /\ ThreadsInit

SpecAnyAttempts == InitAnyAttempts /\ [][Next]_vars

InitDelay == HandlerInit(DelayConfigs) /\ BreakerInit({5}, {60}) /\ StoreInit /\ ErrorHandlerInit /\ ThreadsInit

NextDelay == ApplyCalculateDelay

SpecDelay == InitDelay /\ [][NextDelay]_vars

InitBreaker ==
    /\ HandlerInit({RetryConfig(3, 1, 60, 2, TRUE, 1, "exponential_backoff",
                                DefaultPolicy)})
    /\ BreakerInit(1..MaxThreshold, 0..MaxTimeout)
    /\ StoreInit
    /\ ErrorHandlerInit /\ ThreadsInit

NextBreaker ==
    \/ Tick
    \/ CallRejected
    \/ CallInvokes
    \/ OperationSucceeds
    \/ \E cls \in OperationClasses : OperationFails(cls)
    \/ OperationInterrupted

SpecBreaker == InitBreaker /\ [][NextBreaker]_vars

InitStore ==
    /\ HandlerInit({RetryConfig(3, 1, 60, 2, TRUE, 1, "exponential_backoff",
                                DefaultPolicy)})
    /\ BreakerInit({5}, {60})
    /\ StoreInit
    /\ ErrorHandlerInit /\ ThreadsInit

NextStore ==
    \/ \E key \in StateKeys : \E i \in 1..Len(StateValues) :
          SaveState(key, StateValues[i])
    \/ \E key \in StateKeys : \E i \in 1..Len(Defaults) :
          LoadState(key, Defaults[i])
    \/ \E key \in StateKeys : DeleteState(key)
    \/ \E search_id \in SearchIds : \E i \in 1..Len(SearchResults) :
          SaveJobSearchState(search_id, "python developer", SearchResults[i],
                             "pending", 0, PyNone)
    \/ \E search_id \in SearchIds : LoadJobSearchState(search_id)
    \/ \E checkpoint_id \in CheckpointIds : \E i \in 1..Len(CheckpointInputs) :
          CreateCheckpoint(checkpoint_id, CheckpointInputs[i].operation,
                           CheckpointInputs[i].state_data)
    \/ \E checkpoint_id \in CheckpointIds : LoadCheckpoint(checkpoint_id)
    \/ GetAllStates
    \/ ClearAllStates

SpecStore == InitStore /\ [][NextStore]_vars

\* the values, search records and checkpoints of the runs with restarts and
\* persistence failures
DurableValues == <<PyInt(-12), PyList(<<PyInt(1)>>)>>
SearchInputs ==
    << [query |-> "python developer", results |-> PyNone, status |-> "pending",
        error_count |-> 0, last_error |-> PyNone],
       [query |-> "python developer", results |-> PyList(<<>>),
        status |-> "pending", error_count |-> 0, last_error |-> PyNone],
       [query |-> "go developer",
        results |-> PyList(<< PyDict(<< <<PyStr(TextA), PyInt(1)>> >>) >>),
        status |-> "completed", error_count |-> 0, last_error |-> PyNone],
       [query |-> "python developer", results |-> PyNone, status |-> "failed",
        error_count |-> 2, last_error |-> PyStr(TextA)] >>
DurableCheckpoints == <<CheckpointInputs[1], CheckpointInputs[2]>>

NextDurable ==
    \/ \E key \in StateKeys : \E i \in 1..Len(DurableValues) :
          SaveState(key, DurableValues[i])
    \/ \E key \in StateKeys : \E i \in 1..Len(Defaults) :
          LoadState(key, Defaults[i])
    \/ \E key \in StateKeys : DeleteState(key)
    \/ \E search_id \in SearchIds : \E i \in 1..Len(SearchInputs) :
          SaveJobSearchState(search_id, SearchInputs[i].query,
                             SearchInputs[i].results, SearchInputs[i].status,
                             SearchInputs[i].error_count,
                             SearchInputs[i].last_error)
    \/ \E search_id \in SearchIds : LoadJobSearchState(search_id)
    \/ \E checkpoint_id \in CheckpointIds : \E i \in 1..Len(DurableCheckpoints) :
          CreateCheckpoint(checkpoint_id, DurableCheckpoints[i].operation,
                           DurableCheckpoints[i].state_data)
    \/ \E checkpoint_id \in CheckpointIds : LoadCheckpoint(checkpoint_id)
    \/ GetAllStates
    \/ ClearAllStates
    \/ Restart
    \/ \E key \in StateKeys : \E i \in 1..Len(DurableValues) :
          \E stage \in WriteStages : SaveStateFails(key, DurableValues[i], stage)
    \/ \E search_id \in SearchIds : \E i \in 1..Len(SearchInputs) :
          \E stage \in WriteStages :
             SaveJobSearchStateFails(search_id, SearchInputs[i].query,
                                     SearchInputs[i].results,
                                     SearchInputs[i].status,
                                     SearchInputs[i].error_count,
                                     SearchInputs[i].last_error, stage)
    \/ \E checkpoint_id \in CheckpointIds : \E i \in 1..Len(DurableCheckpoints) :
          \E stage \in WriteStages :
             CreateCheckpointFails(checkpoint_id,
                                   DurableCheckpoints[i].operation,
                                   DurableCheckpoints[i].state_data, stage)
    \/ \E key \in StateKeys : \E i \in 1..Len(Defaults) :
          \E stage \in ReadStages : LoadStateFails(key, Defaults[i], stage)
    \/ \E search_id \in SearchIds : \E stage \in ReadStages :
          LoadJobSearchStateFails(search_id, stage)
    \/ \E checkpoint_id \in CheckpointIds : \E stage \in ReadStages :
          LoadCheckpointFails(checkpoint_id, stage)
    \/ \E stage \in ReadStages : GetAllStatesFails(stage)
    \/ \E key \in StateKeys : \E stage \in WriteStages :
          DeleteStateFails(key, stage)
    \/ \E stage \in ClearStages : ClearAllStatesFails(stage)

SpecDurable == InitStore /\ [][NextDurable]_vars

\* StateManager with time passing between the operations
NextClock ==
    \/ Tick
    \/ \E key \in StateKeys : \E i \in 1..Len(DurableValues) :
          SaveState(key, DurableValues[i])
    \/ \E key \in StateKeys : \E i \in 1..Len(Defaults) :
          LoadState(key, Defaults[i])
    \/ \E key \in StateKeys : DeleteState(key)
    \/ GetAllStates
    \/ ClearAllStates
    \/ Restart

SpecClock == InitStore /\ [][NextClock]_vars

InitErrors ==
    /\ HandlerInit({RetryConfig(3, 1, 60, 2, TRUE, 1, "exponential_backoff",
                                DefaultPolicy)})
    /\ BreakerInit({5}, {60})
    /\ StoreInit
    /\ ErrorHandlerInit /\ ThreadsInit

NextErrors ==
    \/ \E cls \in HandledClasses, severity \in Severities, reraise \in BOOLEAN :
          HandleError(cls, severity, reraise)
    \/ ResetCounts
    \/ \E severity \in Severities, reraise \in BOOLEAN :
          WrapperFuncReturns(severity, reraise)
    \/ \E cls \in HandledClasses, severity \in Severities, reraise \in BOOLEAN :
          WrapperFuncRaises(cls, severity, reraise)

SpecErrors == InitErrors /\ [][NextErrors]_vars

InitThreads ==
    /\ HandlerInit({RetryConfig(3, 1, 60, 2, TRUE, 1, "exponential_backoff",
                                DefaultPolicy)})
    /\ BreakerInit(1..MaxThreshold, 0..MaxTimeout)
    /\ StoreInit
    /\ ErrorHandlerInit
    /\ ThreadsInit

NextThreads ==
    \/ Tick
    \/ \E t \in Threads :
          \/ ThreadChecksOpen(t)
          \/ ThreadChecksFailureTime(t)
          \/ ThreadReadsGateClock(t)
          \/ ThreadChecksTimeout(t)
          \/ ThreadSetsHalfOpen(t)
          \/ ThreadLogsHalfOpen(t)
          \/ ThreadFuncReturns(t)
          \/ ThreadFuncRaises(t)
          \/ ThreadChecksHalfOpen(t)
          \/ ThreadSetsClosed(t)
          \/ ThreadLogsClosed(t)
          \/ ThreadResetsCount(t)
          \/ ThreadLoadsCount(t)
          \/ ThreadStoresCount(t)
          \/ ThreadReadsFailureClock(t)
          \/ ThreadSetsFailureTime(t)
          \/ ThreadChecksThreshold(t)
          \/ ThreadSetsOpen(t)
          \/ ThreadLogsOpen(t)

SpecThreads == InitThreads /\ [][NextThreads]_vars

\* a breaker that earlier calls have left OPEN: failure_threshold calls in a
\* row failed, the last of them at time 0
BreakerOpened(thresholds, timeouts) ==
    /\ failure_threshold \in thresholds
    /\ recovery_timeout \in timeouts
    /\ failure_count = failure_threshold
    /\ last_failure_time = <<0>>
    /\ state = "OPEN"
    /\ now = 0
    /\ bpc = "idle"
    /\ calls = failure_threshold
    /\ failures_since_success = failure_threshold
    /\ failures_total = failure_threshold
    /\ invocations = failure_threshold
    /\ op_raised = OperationError("OSError")
    /\ last_call = CallRaised(Reraise(OperationError("OSError")), TRUE)

\* the default RetryConfig, with max_attempts ranging over 1..MaxAttempts
GuardedConfigs ==
    {RetryConfig(m, 1, 60, 2, TRUE, 1, "exponential_backoff", DefaultPolicy) :
        m \in 1..MaxAttempts}

InitGuarded ==
    /\ HandlerInit(GuardedConfigs)
    /\ \/ BreakerInit(1..MaxThreshold, 0..MaxTimeout)
       \/ BreakerOpened(1..MaxThreshold, 0..MaxTimeout)
    /\ StoreInit
    /\ ErrorHandlerInit
    /\ ThreadsInit

NextGuarded ==
    \/ ExecuteWithRetry
    \/ Tick
    \/ GuardedCallRejected
    \/ GuardedCallInvokes
    \/ GuardedOperationSucceeds
    \/ \E cls \in OperationClasses : GuardedOperationFails(cls)
    \/ SleepReturns

SpecGuarded == InitGuarded /\ [][NextGuarded]_vars

(***************************************************************************)
(* Properties of execute_with_retry (specification Spec)                   *)
(***************************************************************************)
IsCall(x) == x.ev = "call"
\* the invocations of the operation so far, in order
CallSeq == SelectSeq(trace, IsCall)
\* e is retryable and not non-retryable under the configuration
RetryableOnly(e) ==
    /\ IsInstance(e, config.retryable_exceptions)
    /\ ~IsInstance(e, config.non_retryable_exceptions)
MatchesNeither(e) ==
    /\ ~IsInstance(e, config.retryable_exceptions)
    /\ ~IsInstance(e, config.non_retryable_exceptions)
MatchesBoth(e) ==
    /\ IsInstance(e, config.retryable_exceptions)
    /\ IsInstance(e, config.non_retryable_exceptions)
\* the first k invocations all raised retryable (not non-retryable) errors
FirstFailRetryably(k) ==
    /\ Len(CallSeq) >= k
    /\ \A i \in 1..k : ~CallSeq[i].ok /\ RetryableOnly(CallSeq[i].value)
LastCall == CallSeq[Len(CallSeq)]

\* C1: for every k < max_attempts, when the first k invocations raise
\* retryable errors the run goes on to invocation k+1, and when that one
\* succeeds the run has returned its result after exactly k+1 invocations
\* and k sleeps; nothing follows the first success.
C1_SuccessAfterRetries ==
    \A k \in 0..(config.max_attempts - 1) :
        FirstFailRetryably(k) =>
            /\ Len(CallSeq) = k => pc # "done"
            /\ (Len(CallSeq) > k /\ CallSeq[k + 1].ok) =>
                  /\ pc = "done"
                  /\ CallSeq[k + 1].value = ResultOf(k + 1)
                  /\ outcome = Returned(CallSeq[k + 1].value)
                  /\ Len(CallSeq) = k + 1
                  /\ NumSleeps = k
                  /\ trace[Len(trace)] = CallSeq[k + 1]

\* C1 witness: two retryable failures, then a success, under max_attempts = 3
C1_Witness ==
    /\ pc = "done"
    /\ config.max_attempts = 3
    /\ outcome.kind = "return"
    /\ FirstFailRetryably(2)
    /\ NumCalls = 3
    /\ NumSleeps = 2

\* C2: when every invocation raises a retryable error, the operation is
\* invoked exactly max_attempts times with max_attempts - 1 sleeps and the run
\* raises RetryExhaustedError(max_attempts, error of the last invocation).
C2_ExhaustedAfterMaxAttempts ==
    FirstFailRetryably(Len(CallSeq)) =>
        /\ Len(CallSeq) <= config.max_attempts
        /\ Len(CallSeq) = config.max_attempts => pc = "done"
        /\ pc = "done" =>
              /\ NumCalls = config.max_attempts
              /\ NumSleeps = config.max_attempts - 1
              /\ LastCall.value.at = config.max_attempts
              /\ outcome = RetryExhaustedError(config.max_attempts, LastCall.value)

\* C2 witness: three retryable failures exhaust max_attempts = 3
C2_Witness ==
    /\ pc = "done"
    /\ config.max_attempts = 3
    /\ FirstFailRetryably(3)
    /\ outcome.kind = "RetryExhaustedError"
    /\ NumSleeps = 2

\* C3: an invocation that raises an error matching non_retryable_exceptions
\* ends the run at once with NonRetryableError: no sleep and no invocation
\* follows it (so a first such error leaves one invocation and zero sleeps).
C3_NonRetryableAborts ==
    \A i \in DOMAIN trace :
        (IsCall(trace[i]) /\ ~trace[i].ok
         /\ IsInstance(trace[i].value, config.non_retryable_exceptions)) =>
            /\ i = Len(trace)
            /\ pc = "done"
            /\ outcome.kind = "NonRetryableError"
            /\ outcome.cause = trace[i].value
            /\ NumSleeps = NumCalls - 1
            /\ (trace[i].value.at = 1 => NumCalls = 1 /\ NumSleeps = 0)

\* C3 witness: a non-retryable error on the second attempt, after a retry
C3_Witness ==
    /\ pc = "done"
    /\ outcome.kind = "NonRetryableError"
    /\ NumCalls = 2
    /\ NumSleeps = 1
    /\ config.max_attempts = 3

\* the classes an error may have
KnownClasses ==
    RaisedClasses \cup {"Exception", "ConnectionError", "Timeout", "URLError",
                        "TimeoutError", "builtins.ConnectionError"}

\* C4: an error that matches both retryable_exceptions and
\* non_retryable_exceptions is refused by _should_retry at every attempt, and
\* an invocation raising one is the last of the run.
C4_NonRetryableOverrides ==
    /\ \A c \in KnownClasses, a \in 0..(MaxAttempts + 1) :
          MatchesBoth([cls |-> c, at |-> a + 1]) =>
              ~ShouldRetry(config, [cls |-> c, at |-> a + 1], a)
    /\ \A i \in DOMAIN trace :
          (IsCall(trace[i]) /\ ~trace[i].ok /\ MatchesBoth(trace[i].value)) =>
              /\ i = Len(trace)
              /\ pc = "done"
              /\ outcome.kind # "return"

\* C4 witness: HTTPError, listed in both tuples of retry_on_network_error,
\* raised on a retry
C4_Witness ==
    /\ pc = "done"
    /\ Len(CallSeq) = 2
    /\ ~LastCall.ok
    /\ LastCall.value.cls = "HTTPError"
    /\ MatchesBoth(LastCall.value)
    /\ config.max_attempts = 3

\* C5: an invocation at attempt a that raises an error matching neither
\* tuple ends the run at once, without a sleep, with
\* RetryExhaustedError(a + 1, that error), also when a + 1 < max_attempts.
C5_UnclassifiedAborts ==
    \A i \in DOMAIN trace :
        (IsCall(trace[i]) /\ ~trace[i].ok /\ MatchesNeither(trace[i].value)) =>
            /\ i = Len(trace)
            /\ pc = "done"
            /\ trace[i].value.at = attempt + 1
            /\ outcome = RetryExhaustedError(attempt + 1, trace[i].value)

\* C5 witness: an unclassified error on the second of three attempts
C5_Witness ==
    /\ pc = "done"
    /\ Len(CallSeq) = 2
    /\ ~LastCall.ok
    /\ MatchesNeither(LastCall.value)
    /\ outcome.kind = "RetryExhaustedError"
    /\ outcome.attempts = 2
    /\ config.max_attempts = 3

\* C6 as stated: every terminal failure, RetryExhaustedError and
\* NonRetryableError alike, carries the number of attempts made and the last
\* error of the operation.
C6_EveryFailureCarriesAttempts ==
    (pc = "done" /\ outcome.kind \in {"RetryExhaustedError", "NonRetryableError"}) =>
        /\ "attempts" \in DOMAIN outcome
        /\ outcome.attempts = attempt + 1
        /\ \/ "last_exception" \in DOMAIN outcome /\ outcome.last_exception = LastCall.value
           \/ "cause" \in DOMAIN outcome /\ outcome.cause = LastCall.value

\* C6 amended: RetryExhaustedError carries the number of attempts made
\* (attempt + 1) and the last error; NonRetryableError carries the last error
\* as its cause and in its message, and no attempt count.
C6_FailureCarries ==
    pc = "done" =>
        /\ outcome.kind = "RetryExhaustedError" =>
              /\ outcome.attempts = attempt + 1
              /\ outcome.attempts = NumCalls
              /\ outcome.last_exception = LastCall.value
              /\ outcome.last_exception = last_exception
        /\ outcome.kind = "NonRetryableError" =>
              /\ "attempts" \notin DOMAIN outcome
              /\ outcome.cause = LastCall.value
              /\ outcome.cause = last_exception

\* C6 witness: a NonRetryableError raised on the second attempt
C6_Witness ==
    /\ pc = "done"
    /\ outcome.kind = "NonRetryableError"
    /\ attempt = 1
    /\ LastCall.value.at = 2

\* C7: every sleep directly follows a failed invocation and is followed by
\* another invocation; the run never ends on a sleep, and when it has ended
\* the sleeps number one less than the invocations.
C7_SleepOnlyBetweenAttempts ==
    /\ \A i \in DOMAIN trace :
          trace[i].ev = "sleep" =>
              /\ i > 1
              /\ IsCall(trace[i - 1]) /\ ~trace[i - 1].ok
              /\ i < Len(trace) => IsCall(trace[i + 1])
              /\ i = Len(trace) => pc \in {"sleeping", "calling"}
    /\ pc = "sleeping" => attempt + 1 < config.max_attempts
    /\ pc = "done" =>
          /\ IsCall(trace[Len(trace)])
          /\ NumSleeps = NumCalls - 1

\* C7 witness: a run that ended after three invocations and two sleeps
C7_Witness ==
    /\ pc = "done"
    /\ NumCalls = 3
    /\ NumSleeps = 2
    /\ trace[2].ev = "sleep"
    /\ trace[4].ev = "sleep"

(***************************************************************************)
(* Properties of _calculate_delay (specification SpecDelay)                *)
(***************************************************************************)
RECURSIVE Fib(_)
\* 1, 1, 2, 3, 5, ... for a = 0, 1, 2, ...
Fib(a) == IF a <= 1 THEN 1 ELSE Fib(a - 1) + Fib(a - 2)

\* f(a) of the configured strategy, before clamping
StrategyFormula(cfg, a) ==
    CASE cfg.strategy = "exponential_backoff" ->
            cfg.base_delay * Pow(cfg.exponential_factor, a)
      [] cfg.strategy = "linear_backoff" -> cfg.base_delay * (a + 1)
      [] cfg.strategy = "fixed_delay" -> cfg.base_delay
      [] cfg.strategy = "fibonacci_backoff" ->
            IF a < cfg.max_attempts + 5
            THEN cfg.base_delay * Fib(a)
            ELSE cfg.base_delay * Pow(cfg.exponential_factor, a)

\* c = min(max_delay, f(a))
ClampedFormula(cfg, a) == Min(cfg.max_delay, StrategyFormula(cfg, a))

Applied == delay_call # <<>>
AppliedAttempt == delay_call[1].attempt
AppliedResult == delay_call[1].result

\* C8: with jitter disabled the delay is min(max_delay, f(a)) whatever
\* random.random() would draw; for fibonacci, delay(0) = delay(1) = base_delay
\* and delay(2) = 2 * base_delay when max_delay does not bind.
C8_DelayMatchesFormula ==
    (Applied /\ ~config.jitter) =>
        /\ AppliedResult = ClampedFormula(config, AppliedAttempt) * DelayScale
        /\ (config.strategy = "fibonacci_backoff" /\ AppliedAttempt \in {0, 1}
            /\ config.base_delay <= config.max_delay) =>
              AppliedResult = config.base_delay * DelayScale
        /\ (config.strategy = "fibonacci_backoff" /\ AppliedAttempt = 2
            /\ 2 * config.base_delay <= config.max_delay) =>
              AppliedResult = 2 * config.base_delay * DelayScale

\* C8 witness: fibonacci, attempt 2, max_delay not binding
C8_Witness ==
    /\ Applied
    /\ ~config.jitter
    /\ config.strategy = "fibonacci_backoff"
    /\ config.base_delay = 1
    /\ AppliedAttempt = 2
    /\ AppliedResult = 2 * DelayScale

\* C9 as stated: with jitter enabled and jitter_factor >= 0 the delay is
\* never below c = min(max_delay, f(a)) and is strictly below
\* c * (1 + jitter_factor) when c > 0.
C9_JitterWithinHalfOpenInterval ==
    (Applied /\ config.jitter /\ config.jitter_factor >= 0) =>
        LET c == ClampedFormula(config, AppliedAttempt)
        IN  /\ AppliedResult >= c * DelayScale
            /\ c > 0 => AppliedResult < c * (JitterDen + config.jitter_factor) * RandDen

\* C9 amended: with jitter enabled, jitter_factor >= 0 and c >= 0 the delay
\* lies in [c, c * (1 + jitter_factor)]; it is strictly below the upper end
\* when c > 0 and jitter_factor > 0, and equals c when jitter_factor = 0.
C9_JitterAdditive ==
    (Applied /\ config.jitter /\ config.jitter_factor >= 0) =>
        LET c == ClampedFormula(config, AppliedAttempt)
        IN  /\ c >= 0
            /\ AppliedResult >= c * DelayScale
            /\ AppliedResult <= c * (JitterDen + config.jitter_factor) * RandDen
            /\ (c > 0 /\ config.jitter_factor > 0) =>
                  AppliedResult < c * (JitterDen + config.jitter_factor) * RandDen
            /\ config.jitter_factor = 0 => AppliedResult = c * DelayScale

\* C9 witness: a positive jitter added to a positive clamped delay
C9_Witness ==
    /\ Applied
    /\ config.jitter
    /\ config.jitter_factor > 0
    /\ delay_call[1].rand = RandDen - 1
    /\ ClampedFormula(config, AppliedAttempt) = config.max_delay
    /\ AppliedResult > config.max_delay * DelayScale

(***************************************************************************)
(* Properties of CircuitBreaker (specification SpecBreaker)                *)
(***************************************************************************)
\* the last completed call invoked the operation, which raised an Exception
LastCallFailed ==
    /\ last_call.kind = "raised"
    /\ last_call.invoked
    /\ last_call.error.cls # "KeyboardInterrupt"

\* C10: the breaker is CLOSED exactly while fewer than failure_threshold
\* failures have occurred since the last success; failure_count is that
\* number, and the failed call that brings it to failure_threshold leaves
\* the breaker OPEN.
C10_OpensAtThreshold ==
    /\ failure_count = failures_since_success
    /\ (state = "CLOSED") <=> (failures_since_success < failure_threshold)
    /\ (bpc = "idle" /\ LastCallFailed
        /\ failures_since_success = failure_threshold) => state = "OPEN"
    /\ (bpc = "idle" /\ last_call.kind = "returned") =>
          (failure_count = 0 /\ state = "CLOSED")

\* C10 witness: failures interrupted by a success, then failure_threshold
\* failures in a row open the circuit
C10_Witness ==
    /\ bpc = "idle"
    /\ failure_threshold = 2
    /\ failures_total = 3
    /\ failures_since_success = 2
    /\ calls = 4
    /\ LastCallFailed
    /\ state = "OPEN"

\* now - last_failure_time, once a failure has been recorded
SinceLastFailure == now - last_failure_time[1]

\* a step in which a CircuitBreaker.call starts
CallStarts == bpc = "idle" /\ calls' = calls + 1

\* C11: a call made while OPEN with now - last_failure_time < recovery_timeout
\* raises the circuit-open error without invoking the operation and leaves
\* state, failure_count and last_failure_time as they were.
C11_OpenRejectsWithinCooldown ==
    [][(CallStarts /\ state = "OPEN" /\ last_failure_time # <<>>
        /\ SinceLastFailure < recovery_timeout) =>
          /\ bpc' = "idle"
          /\ last_call' = CallRaised(CircuitOpenException, FALSE)
          /\ invocations' = invocations
          /\ state' = state
          /\ failure_count' = failure_count
          /\ last_failure_time' = last_failure_time]_vars

\* C11 witness: two calls in a row rejected within the cooldown, the second
\* later than the first, with the failure time still that of the failure
C11_Witness ==
    /\ bpc = "idle"
    /\ state = "OPEN"
    /\ last_call = CallRaised(CircuitOpenException, FALSE)
    /\ calls = invocations + 2
    /\ last_failure_time = <<0>>
    /\ now = 1
    /\ recovery_timeout = 2

\* C12: a call made while OPEN with now - last_failure_time >=
\* recovery_timeout moves to HALF_OPEN and invokes the operation; when the
\* operation then succeeds the call returns with state CLOSED and
\* failure_count 0.
C12_HalfOpenTrialCloses ==
    [][/\ (CallStarts /\ state = "OPEN" /\ last_failure_time # <<>>
           /\ SinceLastFailure >= recovery_timeout) =>
             /\ state' = "HALF_OPEN"
             /\ bpc' = "in_func"
             /\ invocations' = invocations + 1
       /\ (bpc = "in_func" /\ state = "HALF_OPEN" /\ bpc' = "idle"
           /\ last_call'.kind = "returned") =>
             /\ state' = "CLOSED"
             /\ failure_count' = 0]_vars

\* C12 witness: two failures opened the circuit (threshold 2) and the trial
\* call, made exactly when the cooldown had elapsed, succeeded
C12_Witness ==
    /\ bpc = "idle"
    /\ failure_threshold = 2
    /\ failures_total = 2
    /\ calls = 3
    /\ last_call.kind = "returned"
    /\ state = "CLOSED"
    /\ failure_count = 0
    /\ recovery_timeout = 2
    /\ last_failure_time = <<0>>
    /\ now = 2

\* C13: a failure of the trial call made in HALF_OPEN returns the breaker to
\* OPEN and records the time of that failure, and from OPEN the operation is
\* invoked only once recovery_timeout has elapsed since the recorded time.
C13_HalfOpenFailureReopens ==
    [][/\ (bpc = "in_func" /\ state = "HALF_OPEN" /\ bpc' = "idle"
           /\ last_call'.kind = "raised"
           /\ last_call'.error.cls # "KeyboardInterrupt") =>
             /\ state' = "OPEN"
             /\ last_failure_time' = <<now>>
             /\ failure_count' = failure_count + 1
       /\ (state = "OPEN" /\ invocations' # invocations) =>
             /\ last_failure_time # <<>>
             /\ SinceLastFailure >= recovery_timeout]_vars

\* C13 witness: the trial call failed, the circuit is OPEN again with a new
\* failure time and the next call is rejected
C13_Witness ==
    /\ bpc = "idle"
    /\ state = "OPEN"
    /\ failure_count = failure_threshold + 1
    /\ recovery_timeout = 2
    /\ last_failure_time = <<2>>
    /\ now = 3
    /\ last_call = CallRaised(CircuitOpenException, FALSE)

\* C14: a call invokes the operation at most once, and when the operation
\* raises an Exception e the call raises that same e, after failure_count,
\* last_failure_time and state have been updated.
C14_PropagatesOperationError ==
    /\ [](invocations <= calls)
    /\ [][/\ invocations' \in {invocations, invocations + 1}
          /\ invocations' # invocations => CallStarts
          /\ (bpc = "in_func" /\ bpc' = "idle" /\ last_call'.kind = "raised"
              /\ op_raised'.cls # "KeyboardInterrupt") =>
                /\ last_call'.error = op_raised'
                /\ last_call'.invoked
                /\ failure_count' = failure_count + 1
                /\ last_failure_time' = <<now>>
                /\ (failure_count' >= failure_threshold) => state' = "OPEN"]_vars

\* C14 witness: the operation's OSError reached the caller and opened the circuit
C14_Witness ==
    /\ bpc = "idle"
    /\ last_call = CallRaised(OperationError("OSError"), TRUE)
    /\ op_raised = OperationError("OSError")
    /\ state = "OPEN"
    /\ failure_count = 2
    /\ invocations = 2

\* the call was refused by the open circuit
Rejected == last_call.kind = "raised" /\ ~last_call.invoked

\* C15 as stated: the fail-fast error has a kind of its own: no error of the
\* wrapped operation is an instance of its class.
C15_CircuitOpenIsDistinctKind ==
    Rejected => \A c \in OperationClasses : last_call.error.cls \notin Mro(c)

\* C15 amended: the fail-fast error is a plain Exception with the message
\* "Circuit breaker is OPEN"; it has no class of its own, so every Exception
\* the operation raises is an instance of its class.
C15_CircuitOpenIsPlainException ==
    Rejected =>
        /\ last_call.error.cls = "Exception"
        /\ last_call.error.message = "Circuit breaker is OPEN"
        /\ \A c \in OperationClasses : last_call.error.cls \in Mro(c)

\* C15 witness: a call rejected after the operation itself raised an Exception
C15_Witness ==
    /\ Rejected
    /\ state = "OPEN"
    /\ op_raised = OperationError("Exception")

(***************************************************************************)
(* Properties of StateManager (specification SpecStore)                    *)
(***************************************************************************)
\* C16 as stated: for every key whose last write was save_state(k, v),
\* load_state(k) returns a value equal to v and of the type of v.
C16_SaveLoadRoundTrip ==
    \A key \in StateKeys :
        last_saved[key] # <<>> =>
            SameValue(LoadStateResult(application_state, key, PyNone),
                      last_saved[key][1])

\* the value save_state followed by load_state yields for value
RoundTrip(value) == Deserialize(SerializedRow(value))

\* C16, what the code does: load_state returns the round trip of the value
\* last saved, which is the value itself for an int, a float, a bool, a
\* string, a list and a dict with str keys, but a list for a tuple and a
\* dict with the key "1" for a dict with the key 1.
C16_LoadReturnsRoundTrip ==
    /\ \A key \in StateKeys :
          last_saved[key] # <<>> =>
              SameValue(LoadStateResult(application_state, key, PyNone),
                        RoundTrip(last_saved[key][1]))
    /\ SameValue(RoundTrip(StateValues[6]), PyList(<<PyInt(1)>>))
    /\ SameValue(RoundTrip(StateValues[8]),
                 PyDict(<< <<PyStr(<<"1">>), PyStr(TextA)>> >>))
    /\ \A i \in {1, 2, 3, 4, 5, 7} : SameValue(RoundTrip(StateValues[i]), StateValues[i])

\* C17: load_state(k, default) for a key with no row returns the default.
C17_MissingKeyReturnsDefault ==
    (store_op.op = "load_state" /\ application_state[store_op.key] = <<>>) =>
        SameValue(store_op.returned, store_op.default)

\* C17 witness: a load of a missing key with the default 0 returned 0 while
\* the other key is stored
C17_Witness ==
    /\ store_op.op = "load_state"
    /\ store_op.key = "k1"
    /\ application_state["k1"] = <<>>
    /\ application_state["k2"] # <<>>
    /\ SameValue(store_op.default, PyInt(0))
    /\ SameValue(store_op.returned, PyInt(0))

\* the three tables
Tables == <<application_state, job_search_state, recovery_checkpoints>>

\* C18: delete_state(k) returns True exactly when a row for k existed; the
\* row is then gone and load_state(k, default) returns the default;
\* delete_state on a key with no row returns False and changes no table, so
\* a delete of the same key right after a delete returns False.
C18_DeleteReportsRemoval ==
    /\ [](store_op.op = "delete_state" =>
            /\ store_op.deleted = store_op.existed
            /\ application_state[store_op.key] = <<>>
            /\ \A i \in 1..Len(Defaults) :
                  SameValue(LoadStateResult(application_state, store_op.key,
                                            Defaults[i]), Defaults[i]))
    /\ [][/\ (store_op'.op = "delete_state" /\ ~store_op'.deleted) =>
                UNCHANGED Tables
          /\ (store_op'.op = "delete_state" /\ store_op'.deleted) =>
                \A key \in StateKeys \ {store_op'.key} :
                    application_state'[key] = application_state[key]
          /\ (store_op.op = "delete_state" /\ store_op'.op = "delete_state"
              /\ store_op'.key = store_op.key) => ~store_op'.deleted]_vars

\* C18 witness: a delete removed the row of k1 and left that of k2
C18_Witness ==
    /\ store_op.op = "delete_state"
    /\ store_op.key = "k1"
    /\ store_op.deleted
    /\ application_state["k1"] = <<>>
    /\ application_state["k2"] # <<>>

\* C19 as stated: load_checkpoint(id) returns exactly the operation and the
\* state_data of the most recent create_checkpoint for id, and None for an
\* id never created or cleared.
C19_LoadReturnsLatestCheckpoint ==
    store_op.op = "load_checkpoint" =>
        IF last_checkpoint[store_op.checkpoint_id] = <<>>
        THEN store_op.checkpoint = <<>>
        ELSE /\ store_op.checkpoint # <<>>
             /\ store_op.checkpoint[1].operation
                    = last_checkpoint[store_op.checkpoint_id][1].operation
             /\ SameValue(store_op.checkpoint[1].state_data,
                          last_checkpoint[store_op.checkpoint_id][1].state_data)

\* C19, what the code does: create_checkpoint is an upsert per id and
\* load_checkpoint returns the operation of the most recent one and the
\* JSON round trip of its state_data; None for an id never created or
\* cleared.
C19_LatestCheckpointWins ==
    store_op.op = "load_checkpoint" =>
        IF last_checkpoint[store_op.checkpoint_id] = <<>>
        THEN store_op.checkpoint = <<>>
        ELSE /\ store_op.checkpoint # <<>>
             /\ store_op.checkpoint[1].operation
                    = last_checkpoint[store_op.checkpoint_id][1].operation
             /\ SameValue(store_op.checkpoint[1].state_data,
                          JsonLoads(JsonDumps(
                              last_checkpoint[store_op.checkpoint_id][1].state_data)))

\* C19 witness: c1 holds the second input while c2 has none: the load of c1
\* returned the second input
C19_Witness ==
    /\ store_op.op = "load_checkpoint"
    /\ store_op.checkpoint_id = "c1"
    /\ last_checkpoint["c1"] # <<>>
    /\ last_checkpoint["c1"][1].operation = "apply"
    /\ SameValue(last_checkpoint["c1"][1].state_data, CheckpointInputs[2].state_data)
    /\ last_checkpoint["c2"] = <<>>
    /\ store_op.checkpoint # <<>>
    /\ store_op.checkpoint[1].operation = "apply"
    /\ SameValue(store_op.checkpoint[1].state_data, CheckpointInputs[2].state_data)

\* C20: after clear_all_states returned True the three tables are empty,
\* get_all_states returns an empty mapping and load_job_search_state and
\* load_checkpoint return None for every id.
C20_ClearEmptiesAllTables ==
    /\ []((store_op.op = "clear_all_states" /\ store_op.cleared) =>
            /\ NumRows(application_state) = 0
            /\ NumRows(job_search_state) = 0
            /\ NumRows(recovery_checkpoints) = 0
            /\ DOMAIN GetAllStatesResult(application_state) = {}
            /\ \A id \in SearchIds :
                  LoadJobSearchStateResult(job_search_state, id) = <<>>
            /\ \A id \in CheckpointIds :
                  LoadCheckpointResult(recovery_checkpoints, id) = <<>>)
    /\ [][store_op.op = "clear_all_states" =>
            /\ store_op'.op = "get_all_states" => DOMAIN store_op'.states = {}
            /\ store_op'.op = "load_job_search_state" => store_op'.job_state = <<>>
            /\ store_op'.op = "load_checkpoint" => store_op'.checkpoint = <<>>]_vars

\* C20 witness: clear_all_states returned True when every key of every table
\* had a row
C20_Witness ==
    /\ store_op.op = "clear_all_states"
    /\ store_op.cleared
    /\ store_op.rows_before = 5

(***************************************************************************)
(* Further properties of CircuitBreaker (specification SpecBreaker)        *)
(***************************************************************************)
\* C26: the breaker starts CLOSED and its state changes only CLOSED -> OPEN
\* (a failure that brings failure_count to failure_threshold), OPEN ->
\* HALF_OPEN (a call made once now - last_failure_time >= recovery_timeout),
\* HALF_OPEN -> CLOSED (the trial call succeeded) and HALF_OPEN -> OPEN (the
\* trial call failed); never CLOSED -> HALF_OPEN nor OPEN -> CLOSED.
C26_OnlyLifecycleTransitions ==
    /\ state = "CLOSED"
    /\ [][state' # state =>
            \/ /\ state = "CLOSED" /\ state' = "OPEN"
               /\ bpc = "in_func" /\ last_call'.kind = "raised"
               /\ failure_count' = failure_count + 1
               /\ failure_count' = failure_threshold
            \/ /\ state = "OPEN" /\ state' = "HALF_OPEN"
               /\ CallStarts
               /\ last_failure_time # <<>>
               /\ SinceLastFailure >= recovery_timeout
            \/ /\ state = "HALF_OPEN" /\ state' = "CLOSED"
               /\ bpc = "in_func" /\ last_call'.kind = "returned"
            \/ /\ state = "HALF_OPEN" /\ state' = "OPEN"
               /\ bpc = "in_func" /\ last_call'.kind = "raised"]_vars

\* C26 witness: with threshold 1 the breaker opened, closed again after a
\* successful trial call and was opened by the next failure
C26_Witness ==
    /\ failure_threshold = 1
    /\ state = "OPEN"
    /\ calls = 3
    /\ invocations = 3
    /\ failures_total = 2
    /\ failure_count = 1
    /\ bpc = "idle"

(***************************************************************************)
(* Further properties of _calculate_delay (specification SpecDelay)        *)
(***************************************************************************)
\* C27 as stated: whatever the configuration and the attempt, the delay
\* returned by _calculate_delay is at most max_delay.
C27_DelayAtMostMaxDelay ==
    Applied => AppliedResult <= config.max_delay * DelayScale

\* C27, what the code does: the delay is at most max_delay without jitter
\* and at most max_delay * (1 + jitter_factor) with jitter, which is added
\* after the clamp; it exceeds max_delay when the clamp binds and the
\* jitter is positive.
C27_DelayAtMostMaxDelayPlusJitter ==
    Applied =>
        /\ ~config.jitter => AppliedResult <= config.max_delay * DelayScale
        /\ config.jitter =>
              AppliedResult
                  <= config.max_delay * (JitterDen + config.jitter_factor) * RandDen
        /\ (config.jitter /\ config.jitter_factor > 0 /\ delay_call[1].rand > 0
            /\ StrategyFormula(config, AppliedAttempt) >= config.max_delay) =>
              AppliedResult > config.max_delay * DelayScale

(***************************************************************************)
(* Termination of execute_with_retry (specification SpecFair)              *)
(***************************************************************************)
\* C28: when every invocation of the operation ends, a started run ends: it
\* returns a result or raises RetryExhaustedError or NonRetryableError,
\* after at most max_attempts invocations, with attempt indices in
\* 0..max_attempts-1, and at most max_attempts-1 sleeps.
C28_RunTerminates ==
    /\ [](/\ NumCalls <= config.max_attempts
          /\ NumSleeps <= config.max_attempts - 1
          /\ attempt \in 0..(config.max_attempts - 1)
          /\ pc = "done" =>
                outcome.kind \in {"return", "RetryExhaustedError", "NonRetryableError"})
    /\ (pc # "idle") ~> (pc = "done")

\* C28 witness: a run of two attempts ended by exhaustion after one sleep
C28_Witness ==
    /\ pc = "done"
    /\ config.max_attempts = 2
    /\ outcome.kind = "RetryExhaustedError"
    /\ NumCalls = 2
    /\ NumSleeps = 1

(***************************************************************************)
(* Further properties of StateManager (specification SpecStore)            *)
(***************************************************************************)
\* C29: get_all_states returns a mapping whose keys are exactly the keys
\* saved and not since deleted or cleared, and whose value for each key k
\* equals load_state(k).
C29_SnapshotMatchesLoads ==
    store_op.op = "get_all_states" =>
        /\ DOMAIN store_op.states = {key \in StateKeys : last_saved[key] # <<>>}
        /\ \A key \in DOMAIN store_op.states :
              SameValue(store_op.states[key],
                        LoadStateResult(application_state, key, PyNone))

\* C29 witness: a snapshot of two keys, one holding an int read back from
\* its text and one a list read back from JSON
C29_Witness ==
    /\ store_op.op = "get_all_states"
    /\ DOMAIN store_op.states = {"k1", "k2"}
    /\ SameValue(store_op.states["k1"], PyInt(-12))
    /\ SameValue(store_op.states["k2"], PyList(<<PyInt(1)>>))


(***************************************************************************)
(* Properties of StateManager under restarts and persistence failures      *)
(* (specifications SpecDurable and SpecStore)                              *)
(***************************************************************************)
\* the three tables are what they were before the step
TablesUnchanged ==
    /\ application_state' = application_state
    /\ job_search_state' = job_search_state
    /\ recovery_checkpoints' = recovery_checkpoints

\* load_state of every key and get_all_states give the same on both tables
SameObservable(before, after) ==
    /\ \A key \in StateKeys : \A i \in 1..Len(Defaults) :
          SameValue(LoadStateResult(after, key, Defaults[i]),
                    LoadStateResult(before, key, Defaults[i]))
    /\ DOMAIN GetAllStatesResult(after) = DOMAIN GetAllStatesResult(before)
    /\ \A key \in DOMAIN GetAllStatesResult(before) :
          SameValue(GetAllStatesResult(after)[key],
                    GetAllStatesResult(before)[key])

\* C21: constructing a StateManager again on the same database file removes
\* and alters no row: every key, search state and checkpoint loads after the
\* restart as it did before it.
C21_RestartKeepsData ==
    [][store_op'.op = "restart" =>
          /\ TablesUnchanged
          /\ SameObservable(application_state, application_state')
          /\ \A search_id \in SearchIds :
                LoadJobSearchStateResult(job_search_state', search_id)
                   = LoadJobSearchStateResult(job_search_state, search_id)
          /\ \A checkpoint_id \in CheckpointIds :
                LoadCheckpointResult(recovery_checkpoints', checkpoint_id)
                   = LoadCheckpointResult(recovery_checkpoints, checkpoint_id)]_vars

\* a restart on a database holding two keys, a search state and two
\* checkpoints, all still there
C21_Witness ==
    /\ store_op.op = "restart"
    /\ store_op.rows_before = 5
    /\ TotalRows = 5
    /\ SameValue(LoadStateResult(application_state, "k1", PyNone), PyInt(-12))

\* C22: save_state(k, v) performed a second time in a row leaves load_state
\* of every key and get_all_states as the first one left them.
C22_RepeatedSaveChangesNothing ==
    [][(/\ store_op'.op = "save_state"
        /\ "repeated" \in DOMAIN store_op'
        /\ store_op'.repeated)
          => SameObservable(application_state, application_state')]_vars

\* the same list was saved under k1 twice in a row, next to another key
C22_Witness ==
    /\ store_op.op = "save_state"
    /\ "repeated" \in DOMAIN store_op
    /\ store_op.repeated
    /\ store_op.key = "k1"
    /\ SameValue(store_op.saved, PyList(<<PyInt(1)>>))
    /\ application_state["k2"] # <<>>

\* C23: a save_state, save_job_search_state or create_checkpoint that meets
\* a persistence failure raises the error to its caller and leaves the three
\* tables as they were before the call.
C23_FailedWriteRaisesAndKeepsStore ==
    [][("raised" \in DOMAIN store_op') =>
          /\ store_op'.op \in {"save_state", "save_job_search_state",
                               "create_checkpoint"}
          /\ store_op'.raised.cls = "OperationalError"
          /\ TablesUnchanged]_vars

\* create_checkpoint failed in conn.commit() while overwriting a checkpoint
\* of another operation, which is still the one stored
C23_Witness ==
    /\ store_op.op = "create_checkpoint"
    /\ "raised" \in DOMAIN store_op
    /\ store_op.raised.stage = "commit"
    /\ recovery_checkpoints[store_op.checkpoint_id] # <<>>
    /\ recovery_checkpoints[store_op.checkpoint_id][1].operation
          # store_op.operation

\* C24: on a persistence failure load_state returns the supplied default,
\* load_job_search_state and load_checkpoint return None, delete_state
\* returns False, nothing is raised and the tables are unchanged.
C24_FailedReadDegrades ==
    [][("failed" \in DOMAIN store_op') =>
          /\ "raised" \notin DOMAIN store_op'
          /\ TablesUnchanged
          /\ store_op'.op = "load_state" =>
                SameValue(store_op'.returned, store_op'.default)
          /\ store_op'.op = "load_job_search_state" => store_op'.job_state = <<>>
          /\ store_op'.op = "load_checkpoint" => store_op'.checkpoint = <<>>
          /\ store_op'.op = "delete_state" => ~store_op'.deleted]_vars

\* load_state of a stored key failed and returned the default 0
C24_Witness ==
    /\ store_op.op = "load_state"
    /\ "failed" \in DOMAIN store_op
    /\ SameValue(store_op.default, PyInt(0))
    /\ SameValue(store_op.returned, PyInt(0))
    /\ application_state[store_op.key] # <<>>
    /\ ~SameValue(LoadStateResult(application_state, store_op.key, PyNone),
                  PyInt(0))

\* C25: clear_all_states either returns True with the three tables empty or
\* returns False with none of the three tables changed.
C25_ClearIsAllOrNothing ==
    [][store_op'.op = "clear_all_states" =>
          /\ ("failed_at" \in DOMAIN store_op') => ~store_op'.cleared
          /\ IF store_op'.cleared
             THEN /\ NumRows(application_state') = 0
                  /\ NumRows(job_search_state') = 0
                  /\ NumRows(recovery_checkpoints') = 0
             ELSE TablesUnchanged]_vars

\* the third DELETE failed after the first two had run; every table still
\* has its rows
C25_Witness ==
    /\ store_op.op = "clear_all_states"
    /\ "failed_at" \in DOMAIN store_op
    /\ store_op.failed_at = 3
    /\ ~store_op.cleared
    /\ NumRows(application_state) = 2
    /\ NumRows(job_search_state) = 1
    /\ NumRows(recovery_checkpoints) = 2

\* C30: after a save_job_search_state the record loaded for its search_id
\* has the query, results, status, error_count and last_error of that save,
\* an empty results list included.
C30_LoadReturnsLastSave ==
    (store_op.op = "save_job_search_state" /\ "raised" \notin DOMAIN store_op) =>
        LET loaded == LoadJobSearchStateResult(job_search_state,
                                               store_op.search_id)
        IN /\ loaded # <<>>
           /\ loaded[1].query = store_op.query
           /\ SameValue(loaded[1].results, store_op.results)
           /\ loaded[1].status = store_op.status
           /\ loaded[1].error_count = store_op.error_count
           /\ SameValue(loaded[1].last_error, store_op.last_error)

\* what the code does: the loaded record has the fields of the last save,
\* with results None when the saved results were empty or None
C30_LoadReturnsLastSaveUnlessEmpty ==
    (store_op.op = "save_job_search_state" /\ "raised" \notin DOMAIN store_op) =>
        LET loaded == LoadJobSearchStateResult(job_search_state,
                                               store_op.search_id)
        IN /\ loaded # <<>>
           /\ loaded[1].query = store_op.query
           /\ IF Truthy(store_op.results)
              THEN SameValue(loaded[1].results, store_op.results)
              ELSE loaded[1].results = PyNone
           /\ loaded[1].status = store_op.status
           /\ loaded[1].error_count = store_op.error_count
           /\ SameValue(loaded[1].last_error, store_op.last_error)

\* an empty list was saved as results and None is what loads
C30_Witness ==
    /\ store_op.op = "save_job_search_state"
    /\ "raised" \notin DOMAIN store_op
    /\ store_op.results = PyList(<<>>)
    /\ LoadJobSearchStateResult(job_search_state, "s1")[1].results = PyNone


(***************************************************************************)
(* Further properties of CircuitBreaker (specification SpecBreaker)        *)
(***************************************************************************)
\* C34: in single-threaded use with failure_threshold >= 1, whenever the
\* state is OPEN or HALF_OPEN the failure_count is at least the threshold
\* and last_failure_time is set, so _is_recovery_timeout_reached never finds
\* last_failure_time None while the circuit is OPEN.
C34_OpenImpliesCountAndTime ==
    state \in {"OPEN", "HALF_OPEN"} =>
        /\ failure_threshold >= 1
        /\ failure_count >= failure_threshold
        /\ last_failure_time # <<>>

\* a trial call is running in HALF_OPEN after two failures opened a circuit
\* of threshold 2
C34_Witness ==
    /\ state = "HALF_OPEN"
    /\ bpc = "in_func"
    /\ failure_threshold = 2
    /\ failure_count = 2
    /\ last_failure_time # <<>>

\* C35: whenever a call has completed, by returning or by raising an
\* Exception, the state is CLOSED or OPEN; HALF_OPEN is seen only while the
\* wrapped operation runs.
C35_HalfOpenOnlyDuringCall ==
    (/\ bpc = "idle"
     /\ \/ last_call.kind = "returned"
        \/ /\ last_call.kind = "raised"
           /\ last_call.error.cls \in OperationClasses)
        => state \in {"CLOSED", "OPEN"}

\* a trial call returned and the circuit is CLOSED again after it had been
\* opened
C35_Witness ==
    /\ bpc = "idle"
    /\ last_call.kind = "returned"
    /\ state = "CLOSED"
    /\ failures_total >= failure_threshold
    /\ last_failure_time # <<>>
    /\ failure_count = 0


(***************************************************************************)
(* Further properties of execute_with_retry                                *)
(***************************************************************************)
\* C32: an invocation of the operation that raises NonRetryableError is the
\* last event of the run under every configuration: no sleep and no further
\* invocation follows it.
C32_NonRetryableErrorNeverRetried ==
    \A i \in DOMAIN trace :
        (IsCall(trace[i]) /\ ~trace[i].ok
         /\ trace[i].value.cls = "NonRetryableError") => i = Len(trace)

\* what the code does: a NonRetryableError raised by the operation is
\* followed by a sleep or an invocation only when the configuration's
\* retryable_exceptions match it and its non_retryable_exceptions do not
C32_NonRetryableErrorRetriedByClassLists ==
    \A i \in DOMAIN trace :
        (IsCall(trace[i]) /\ ~trace[i].ok
         /\ trace[i].value.cls = "NonRetryableError" /\ i < Len(trace)) =>
            /\ IsInstance(trace[i].value, config.retryable_exceptions)
            /\ ~IsInstance(trace[i].value, config.non_retryable_exceptions)

\* under the default class lists the operation raised NonRetryableError on
\* its first invocation, the handler slept and invoked it again
C32_Witness ==
    /\ config.retryable_exceptions = DefaultPolicy.retryable
    /\ config.non_retryable_exceptions = DefaultPolicy.non_retryable
    /\ Len(trace) >= 3
    /\ IsCall(trace[1]) /\ ~trace[1].ok
    /\ trace[1].value.cls = "NonRetryableError"
    /\ trace[2] = SleepEvent
    /\ IsCall(trace[3])


\* C37: with max_attempts <= 0 execute_with_retry never invokes the
\* operation and never sleeps, and it raises RetryExhaustedError with
\* attempts = max_attempts and last_exception = None.
C37_NoAttemptsRaisesExhausted ==
    config.max_attempts <= 0 =>
        /\ trace = <<>>
        /\ pc \in {"idle", "done"}
        /\ pc = "done" =>
              outcome = RetryExhaustedError(config.max_attempts, NoException)

\* the run with max_attempts = -1 has ended
C37_Witness ==
    /\ config.max_attempts = -1
    /\ pc = "done"
    /\ outcome.kind = "RetryExhaustedError"
    /\ outcome.attempts = -1
    /\ outcome.last_exception = NoException
    /\ NumCalls = 0
    /\ NumSleeps = 0


(***************************************************************************)
(* Further properties of StateManager (specifications SpecClock, SpecStore *)
(* and SpecDurable)                                                        *)
(***************************************************************************)
\* C38: every row of application_state has created_at equal to updated_at,
\* and a save_state of a key, new or existing, leaves its row with both at
\* the time of that save.
C38_CreatedEqualsUpdated ==
    /\ [](\A key \in StateKeys :
             application_state[key] # <<>> =>
                 application_state[key][1].created_at
                    = application_state[key][1].updated_at)
    /\ [][(/\ store_op'.op = "save_state"
            /\ "raised" \notin DOMAIN store_op'
            /\ now' = now) =>
             /\ application_state'[store_op'.key][1].created_at = now
             /\ application_state'[store_op'.key][1].updated_at = now]_vars

\* k1 was saved again with the same value at a later time than k2, and its
\* row carries the time of this save in both columns
C38_Witness ==
    /\ store_op.op = "save_state"
    /\ "raised" \notin DOMAIN store_op
    /\ store_op.repeated
    /\ store_op.key = "k1"
    /\ application_state["k1"][1].created_at = now
    /\ application_state["k1"][1].updated_at = now
    /\ application_state["k2"] # <<>>
    /\ application_state["k2"][1].created_at < now


\* C39: save_state(k, v) and delete_state(k) leave the row of every other
\* key and the tables job_search_state and recovery_checkpoints unchanged;
\* save_job_search_state and create_checkpoint leave the rows of the other
\* ids and the two other tables unchanged; load_state,
\* load_job_search_state, load_checkpoint and get_all_states change no table.
C39_OperationsTouchOwnRecord ==
    [][/\ store_op'.op \in {"save_state", "delete_state"} =>
             /\ \A key \in StateKeys \ {store_op'.key} :
                   application_state'[key] = application_state[key]
             /\ job_search_state' = job_search_state
             /\ recovery_checkpoints' = recovery_checkpoints
       /\ store_op'.op = "save_job_search_state" =>
             /\ \A search_id \in SearchIds \ {store_op'.search_id} :
                   job_search_state'[search_id] = job_search_state[search_id]
             /\ application_state' = application_state
             /\ recovery_checkpoints' = recovery_checkpoints
       /\ store_op'.op = "create_checkpoint" =>
             /\ \A checkpoint_id \in CheckpointIds \ {store_op'.checkpoint_id} :
                   recovery_checkpoints'[checkpoint_id]
                      = recovery_checkpoints[checkpoint_id]
             /\ application_state' = application_state
             /\ job_search_state' = job_search_state
       /\ store_op'.op \in {"load_state", "load_job_search_state",
                            "load_checkpoint", "get_all_states"} =>
             TablesUnchanged]_vars

\* k1 was saved as a list while k2, a search state and a checkpoint are
\* stored, k2 still with its own int value
C39_Witness ==
    /\ store_op.op = "save_state"
    /\ store_op.key = "k1"
    /\ SameValue(store_op.saved, PyList(<<PyInt(1)>>))
    /\ application_state["k2"] # <<>>
    /\ SameValue(LoadStateResult(application_state, "k2", PyNone), PyInt(-12))
    /\ job_search_state["s1"] # <<>>
    /\ recovery_checkpoints["c1"] # <<>>


(***************************************************************************)
(* Properties of ErrorHandler (specification SpecErrors)                   *)
(***************************************************************************)
\* C33: handle_error called with reraise=True raises the handled error to
\* its caller after counting and logging it, and a function decorated with
\* reraise=True that raises has its error propagated instead of
\* default_return returned.
C33_ReraiseRaises ==
    /\ (handled.kind # "none" /\ handled.reraise) =>
          /\ handled.kind = "raised"
          /\ Len(handled.log) >= 1
    /\ (/\ wrapped.kind # "none"
        /\ wrapped.reraise
        /\ wrapped.func_raised # NoOperationError) => wrapped.kind = "raised"

\* what the code does: with reraise=True an Exception is caught again by
\* handle_error's own except clause, which logs it and returns False, so the
\* decorator returns default_return; only an error that is no Exception
\* reaches the caller
C33_ReraiseSwallowsExceptions ==
    /\ (handled.kind # "none" /\ handled.reraise) =>
          /\ handled.kind = "raised"
                <=> ~IsInstance(handled.error, {"Exception"})
          /\ handled.kind = "returned" =>
                ~handled.value /\ handled.log[Len(handled.log)] = "error"
    /\ (wrapped.kind # "none" /\ wrapped.func_raised # NoOperationError) =>
          (wrapped.kind = "raised"
              <=> ~IsInstance(wrapped.func_raised, {"Exception"}))

\* handle_error(ValueError, reraise=True) returned False, and a function
\* decorated with reraise=True raised a ValueError and default_return came
\* back
C33_Witness ==
    /\ handled.kind = "returned"
    /\ handled.reraise
    /\ ~handled.value
    /\ handled.error.cls = "ValueError"
    /\ error_counts[handled.severity] >= 1
    /\ wrapped.kind = "returned"
    /\ wrapped.reraise
    /\ wrapped.value = "default_return"
    /\ wrapped.func_raised.cls = "ValueError"


C36_RejectionsAreRetried ==
    [][(/\ pc = "calling"
        /\ bpc = "idle"
        /\ state = "OPEN"
        /\ ~IsRecoveryTimeoutReached
        /\ calls' = calls + 1) =>
          /\ invocations' = invocations
          /\ failure_count' = failure_count
          /\ last_failure_time' = last_failure_time
          /\ state' = "OPEN"
          /\ last_exception'.cls = "Exception"
          /\ trace' # trace
          /\ IF attempt < config.max_attempts - 1
             THEN pc' = "sleeping" /\ trace'[Len(trace')] = SleepEvent
             ELSE /\ pc' = "done"
                  /\ outcome' = RetryExhaustedError(config.max_attempts,
                                                    last_exception')]_vars

\* three attempts on a breaker that stayed OPEN: three refusals, two sleeps,
\* no invocation of the operation, RetryExhaustedError with attempts = 3
C36_Witness ==
    /\ config.max_attempts = 3
    /\ pc = "done"
    /\ outcome.kind = "RetryExhaustedError"
    /\ outcome.attempts = 3
    /\ NumCalls = 3
    /\ NumSleeps = 2
    /\ state = "OPEN"
    /\ calls = invocations + 3
    /\ invocations = failure_threshold
    /\ failure_count = failure_threshold
    /\ last_failure_time = <<0>>
    /\ last_call = CallRaised(CircuitOpenException, FALSE)

====
